---------------------------- MODULE Spec2Model ----------------------------
(***************************************************************************)
(* Engram memory engine: the store (sessions, observations, user prompts,  *)
(* their full-text indices, sync chunk bookkeeping), the redactor, the     *)
(* query sanitizer, and the sync import and export that drive the store.   *)
(*                                                                         *)
(* Texts (titles, contents, prompts, queries) are sequences of one-        *)
(* character strings, so that redaction, truncation and tokenisation are   *)
(* computed byte by byte as the Go code computes them.  A nullable column  *)
(* (Go *string, SQL NULL) is a sequence of length 0 (NULL) or 1.           *)
(***************************************************************************)
EXTENDS Integers, Sequences, FiniteSets, TLC

VARIABLES
    sessions,          \* sessions table: id -> row
    observations,      \* observations table, rows in insertion order
    user_prompts,      \* user_prompts table, rows in insertion order
    obs_seq,           \* sqlite_sequence entry of observations (AUTOINCREMENT)
    prompt_seq,        \* sqlite_sequence entry of user_prompts
    observations_fts,  \* observations_fts index: set of indexed documents
    prompts_fts,       \* prompts_fts index: set of indexed documents
    sync_chunks,       \* sync_chunks table: set of chunk ids
    now,               \* the clock datetime('now') reads, in seconds
    ret,               \* the last call: operation, arguments, result
    pc,                \* sync import runs: position of each process
    known,             \* sync import runs: each process's GetSyncedChunks result
    todo,              \* sync import runs: chunks each process has still to visit
    tally,             \* sync import runs: each process's result counters
    applied,           \* history: how many times each chunk was applied to the store
    sync_dir,          \* .engram: the chunks and the manifest sync Export wrote
    knownSessions,     \* OpenCode plugin: the sessions it has ensured, oldest first
    toolCounts,        \* OpenCode plugin: session id -> tool calls counted
    inflight,          \* OpenCode plugin: the handlers waiting for a response, oldest first
    engram_up,         \* whether the engram server answers requests
    ensured,           \* history: the ids whose POST /sessions was answered
    calls              \* history: session id -> counted tool events since its last idle or deleted event

vars == <<sessions, observations, user_prompts, obs_seq, prompt_seq,
          observations_fts, prompts_fts, sync_chunks, now, ret,
          pc, known, todo, tally, applied, sync_dir, knownSessions, toolCounts, inflight, engram_up, ensured, calls>>

(***************************************************************************)
(* Bounds of the model.                                                    *)
(***************************************************************************)
\* The store runs with this configured Config.MaxObservationLength.
MaxObservationLength == 12
\* Rows the model lets each of observations and user_prompts grow to.
MaxRows == 2
\* Largest clock value.
MaxClock == 1
\* Observations the timeline scenario lets the table grow to.
MaxTimelineRows == 7
\* Times the model lets one chunk be applied to the store.
MaxApplied == 2
\* Pieces (tags, letters, spaces) the texts given to the redactor are made of.
MaxTokens == 4

(***************************************************************************)
(* Texts.                                                                  *)
(***************************************************************************)
OpenTag == <<"<", "p", "r", "i", "v", "a", "t", "e", ">">>

CloseTag == <<"<", "/", "p", "r", "i", "v", "a", "t", "e", ">">>

OpenTagUpper == <<"<", "P", "R", "I", "V", "A", "T", "E", ">">>

CloseTagUpper == <<"<", "/", "P", "R", "I", "V", "A", "T", "E", ">">>

Redacted == <<"[", "R", "E", "D", "A", "C", "T", "E", "D", "]">>

TruncatedSuffix ==
    <<".", ".", ".", " ", "[", "t", "r", "u", "n", "c", "a", "t", "e", "d", "]">>

\* Simple case folding of the letters the pattern can meet.
Lower(c) ==
    CASE c = "P" -> "p" [] c = "R" -> "r" [] c = "I" -> "i" [] c = "V" -> "v"
      [] c = "A" -> "a" [] c = "T" -> "t" [] c = "E" -> "e" [] c = "K" -> "k"
      [] c = "D" -> "d" [] c = "C" -> "c"
      [] OTHER -> c

\* Whether the case-insensitive literal pat occurs in s at position i.
MatchAt(s, i, pat) ==
    /\ i >= 1
    /\ i + Len(pat) - 1 <= Len(s)
    /\ \A j \in 1..Len(pat) : Lower(s[i + j - 1]) = pat[j]

\* Whether the case-insensitive literal pat occurs in s.
ContainsFold(s, pat) == \E i \in 1..Len(s) : MatchAt(s, i, pat)

\* Whether the exact sequence pat occurs in s.
Contains(s, pat) ==
    \E i \in 1..(Len(s) - Len(pat) + 1) : SubSeq(s, i, i + Len(pat) - 1) = pat

Min(S) == CHOOSE x \in S : \A y \in S : x <= y

Max(S) == CHOOSE x \in S : \A y \in S : x >= y

\* unicode.IsSpace on the characters of the model.
IsSpace(c) == c \in {" ", "\t", "\n", "\r"}

\* strings.TrimSpace
TrimSpace(s) ==
    LET keep == {i \in 1..Len(s) : ~IsSpace(s[i])}
    IN  IF keep = {} THEN <<>> ELSE SubSeq(s, Min(keep), Max(keep))

\* A replacement that stops after the first match.
RECURSIVE ReplaceFirstFrom(_, _)
ReplaceFirstFrom(s, i) ==
    IF i > Len(s) THEN <<>>
    ELSE LET closes == {j \in (i + Len(OpenTag))..Len(s) : MatchAt(s, j, CloseTag)}
         IN  IF MatchAt(s, i, OpenTag) /\ closes # {}
             THEN Redacted \o SubSeq(s, Min(closes) + Len(CloseTag), Len(s))
             ELSE <<s[i]>> \o ReplaceFirstFrom(s, i + 1)

\* privateTagRegex.ReplaceAllString(s, "[REDACTED]") from position i on:
\* (?is)<private>.*?</private>, leftmost match, shortest extent, no overlap.
RECURSIVE ReplaceAllFrom(_, _)
ReplaceAllFrom(s, i) ==
    IF i > Len(s) THEN <<>>
    ELSE LET closes == {j \in (i + Len(OpenTag))..Len(s) : MatchAt(s, j, CloseTag)}
         IN  IF MatchAt(s, i, OpenTag) /\ closes # {}
             THEN Redacted \o ReplaceAllFrom(s, Min(closes) + Len(CloseTag))
             ELSE <<s[i]>> \o ReplaceAllFrom(s, i + 1)

stripPrivateTags(s) == TrimSpace(ReplaceAllFrom(s, 1))

\* The length cut of AddObservation and AddPrompt.
\* A truncation that starts at the limit instead of above it.
TruncateContentAtLimit(content) ==
    IF Len(content) >= MaxObservationLength
    THEN SubSeq(content, 1, MaxObservationLength) \o TruncatedSuffix
    ELSE content

\* if len(content) > s.cfg.MaxObservationLength { content = content[:max] + "... [truncated]" }
TruncateContent(content) ==
    IF Len(content) > MaxObservationLength
    THEN SubSeq(content, 1, MaxObservationLength) \o TruncatedSuffix
    ELSE content

nullableString(s) == IF s = "" THEN <<>> ELSE <<s>>


(***************************************************************************)
(* The database as one value, and the statements the store executes.       *)
(***************************************************************************)
DB ==
    [sessions |-> sessions, observations |-> observations,
     user_prompts |-> user_prompts, obs_seq |-> obs_seq,
     prompt_seq |-> prompt_seq, observations_fts |-> observations_fts,
     prompts_fts |-> prompts_fts, sync_chunks |-> sync_chunks]

\* The database New and migrate leave behind on a new data directory.
EmptyDB ==
    [sessions |-> <<>>, observations |-> <<>>, user_prompts |-> <<>>,
     obs_seq |-> 0, prompt_seq |-> 0, observations_fts |-> {},
     prompts_fts |-> {}, sync_chunks |-> {}]

Commit(st) ==
    /\ sessions' = st.sessions
    /\ observations' = st.observations
    /\ user_prompts' = st.user_prompts
    /\ obs_seq' = st.obs_seq
    /\ prompt_seq' = st.prompt_seq
    /\ observations_fts' = st.observations_fts
    /\ prompts_fts' = st.prompts_fts
    /\ sync_chunks' = st.sync_chunks

\* The three data tables and the two indices.
Tables(st) ==
    <<st.sessions, st.observations, st.user_prompts,
      st.observations_fts, st.prompts_fts>>

\* FOREIGN KEY (session_id) REFERENCES sessions(id), checked on a connection
\* that has PRAGMA foreign_keys = ON (fk) and on no other.
ForeignKeyOK(st, fk, session_id) == fk => session_id \in DOMAIN st.sessions

\* A rowid allocator that hands the last rowid out again.
NextRowidReused(seq) == IF seq = 0 THEN 1 ELSE seq

\* AUTOINCREMENT: the next rowid is one more than the largest ever used.
NextRowid(seq) == seq + 1

\* Trigger obs_fts_insert.
obs_fts_insert(fts, new) ==
    fts \cup {[rowid |-> new.id, title |-> new.title, content |-> new.content,
               tool_name |-> new.tool_name, type |-> new.type,
               project |-> new.project]}

\* Trigger prompt_fts_insert.
prompt_fts_insert(fts, new) ==
    fts \cup {[rowid |-> new.id, content |-> new.content, project |-> new.project]}

\* INSERT OR REPLACE INTO sessions: the row of an existing id is written anew.
InsertSessionOrReplace(st, id, row) ==
    [ok |-> TRUE, n |-> 1,
     st |-> [st EXCEPT !.sessions =
                [x \in DOMAIN st.sessions \cup {id} |->
                   IF x = id THEN row ELSE st.sessions[x]]]]

\* INSERT OR IGNORE INTO sessions: a row whose id exists is left as it is.
\* n is RowsAffected.
InsertSessionOrIgnore(st, id, row) ==
    IF id \in DOMAIN st.sessions
    THEN [ok |-> TRUE, n |-> 0, st |-> st]
    ELSE [ok |-> TRUE, n |-> 1,
          st |-> [st EXCEPT !.sessions = (id :> row) @@ st.sessions]]

\* INSERT INTO observations, with its trigger. vals has every column but id.
InsertObservation(st, fk, vals) ==
    IF ~ForeignKeyOK(st, fk, vals.session_id)
    THEN [ok |-> FALSE, n |-> 0, st |-> st]
    ELSE LET id == NextRowid(st.obs_seq)
             new == [id |-> id, session_id |-> vals.session_id,
                     type |-> vals.type, title |-> vals.title,
                     content |-> vals.content, tool_name |-> vals.tool_name,
                     project |-> vals.project, created_at |-> vals.created_at]
         IN  [ok |-> TRUE, n |-> 1,
              st |-> [st EXCEPT !.observations = Append(@, new),
                                !.obs_seq = id,
                                !.observations_fts = obs_fts_insert(@, new)]]

\* INSERT INTO user_prompts, with its trigger.
InsertPrompt(st, fk, vals) ==
    IF ~ForeignKeyOK(st, fk, vals.session_id)
    THEN [ok |-> FALSE, n |-> 0, st |-> st]
    ELSE LET id == NextRowid(st.prompt_seq)
             new == [id |-> id, session_id |-> vals.session_id,
                     content |-> vals.content, project |-> vals.project,
                     created_at |-> vals.created_at]
         IN  [ok |-> TRUE, n |-> 1,
              st |-> [st EXCEPT !.user_prompts = Append(@, new),
                                !.prompt_seq = id,
                                !.prompts_fts = prompt_fts_insert(@, new)]]

(***************************************************************************)
(* Store: the write path.                                                  *)
(***************************************************************************)
CreateSession(id, project, directory) ==
    LET row == [project |-> project, directory |-> directory,
                started_at |-> now, ended_at |-> <<>>, summary |-> <<>>]
        r == InsertSessionOrIgnore(DB, id, row)
    IN  /\ Commit(r.st)
        /\ ret' = [op |-> "CreateSession", id |-> id, project |-> project,
                   directory |-> directory, err |-> FALSE]
        /\ UNCHANGED <<now, pc, known, todo, tally, applied, sync_dir, knownSessions, toolCounts, inflight, engram_up, ensured, calls>>

nullableText(s) == IF s = <<>> THEN <<>> ELSE <<s>>

\* An EndSession that ends a session once: a session already ended keeps its
\* end time and summary.
EndSessionOnce(id, summary) ==
    /\ sessions' =
         IF id \in DOMAIN sessions /\ sessions[id].ended_at = <<>>
         THEN [sessions EXCEPT ![id].ended_at = <<now>>,
                               ![id].summary = nullableText(summary)]
         ELSE sessions
    /\ ret' = [op |-> "EndSession", id |-> id, summary |-> summary, err |-> FALSE]
    /\ UNCHANGED <<observations, user_prompts, obs_seq, prompt_seq,
                   observations_fts, prompts_fts, sync_chunks, now,
                   pc, known, todo, tally, applied, sync_dir, knownSessions, toolCounts, inflight, engram_up, ensured, calls>>

\* An EndSession that reports an id its UPDATE did not find.
EndSessionChecked(id, summary) ==
    /\ sessions' =
         IF id \in DOMAIN sessions
         THEN [sessions EXCEPT ![id].ended_at = <<now>>,
                               ![id].summary = nullableText(summary)]
         ELSE sessions
    /\ ret' = [op |-> "EndSession", id |-> id, summary |-> summary, err |-> id \notin DOMAIN sessions]
    /\ UNCHANGED <<observations, user_prompts, obs_seq, prompt_seq,
                   observations_fts, prompts_fts, sync_chunks, now,
                   pc, known, todo, tally, applied, sync_dir, knownSessions, toolCounts, inflight, engram_up, ensured, calls>>

EndSession(id, summary) ==
    /\ sessions' =
         IF id \in DOMAIN sessions
         THEN [sessions EXCEPT ![id].ended_at = <<now>>,
                               ![id].summary = nullableText(summary)]
         ELSE sessions
    /\ ret' = [op |-> "EndSession", id |-> id, summary |-> summary, err |-> FALSE]
    /\ UNCHANGED <<observations, user_prompts, obs_seq, prompt_seq,
                   observations_fts, prompts_fts, sync_chunks, now,
                   pc, known, todo, tally, applied, sync_dir, knownSessions, toolCounts, inflight, engram_up, ensured, calls>>

AddObservation(p, fk) ==
    LET title == stripPrivateTags(p.title)
        content == TruncateContent(stripPrivateTags(p.content))
        r == InsertObservation(DB, fk,
                 [session_id |-> p.session_id, type |-> p.type, title |-> title,
                  content |-> content, tool_name |-> nullableString(p.tool_name),
                  project |-> nullableString(p.project), created_at |-> now])
    IN  /\ Commit(r.st)
        /\ ret' = [op |-> "AddObservation", p |-> p, err |-> ~r.ok,
                   id |-> IF r.ok THEN r.st.obs_seq ELSE 0]
        /\ UNCHANGED <<now, pc, known, todo, tally, applied, sync_dir, knownSessions, toolCounts, inflight, engram_up, ensured, calls>>

AddPrompt(p, fk) ==
    LET content == TruncateContent(stripPrivateTags(p.content))
        r == InsertPrompt(DB, fk,
                 [session_id |-> p.session_id, content |-> content,
                  project |-> nullableString(p.project), created_at |-> now])
    IN  /\ Commit(r.st)
        /\ ret' = [op |-> "AddPrompt", p |-> p, err |-> ~r.ok,
                   id |-> IF r.ok THEN r.st.prompt_seq ELSE 0]
        /\ UNCHANGED <<now, pc, known, todo, tally, applied, sync_dir, knownSessions, toolCounts, inflight, engram_up, ensured, calls>>

\* engram save <title> <content> [--type TYPE] [--project PROJECT]:
\* s.CreateSession("manual-save", project, ""), its error ignored, then
\* s.AddObservation with SessionID "manual-save".
cmdSave(title, content, typ, project, fk) ==
    LET r1 == InsertSessionOrIgnore(DB, "manual-save",
                  [project |-> project, directory |-> "", started_at |-> now,
                   ended_at |-> <<>>, summary |-> <<>>])
        r2 == InsertObservation(r1.st, fk,
                  [session_id |-> "manual-save", type |-> typ,
                   title |-> stripPrivateTags(title),
                   content |-> TruncateContent(stripPrivateTags(content)),
                   tool_name |-> nullableString(""),
                   project |-> nullableString(project), created_at |-> now])
    IN  /\ Commit(r2.st)
        /\ ret' = [op |-> "cmdSave", title |-> title, content |-> content,
                   type |-> typ, project |-> project, err |-> ~r2.ok,
                   id |-> IF r2.ok THEN r2.st.obs_seq ELSE 0]
        /\ UNCHANGED <<now, pc, known, todo, tally, applied, sync_dir, knownSessions, toolCounts, inflight, engram_up, ensured, calls>>

\* The clock moves on between calls.
Tick ==
    /\ now < MaxClock
    /\ now' = now + 1
    /\ UNCHANGED <<sessions, observations, user_prompts, obs_seq, prompt_seq,
                   observations_fts, prompts_fts, sync_chunks, ret,
                   pc, known, todo, tally, applied, sync_dir, knownSessions, toolCounts, inflight, engram_up, ensured, calls>>

(***************************************************************************)
(* Export and Import.                                                      *)
(***************************************************************************)
\* The sequences that list every element of S once.
Perms(S) ==
    {q \in [1..Cardinality(S) -> S] : \A i, j \in DOMAIN q : i # j => q[i] # q[j]}

\* rows.Scan of a nullable column into a Go string fails on NULL.
ScanStringOK(col) == col # <<>>

\* SELECT ... FROM sessions ORDER BY started_at: every order the sort allows
\* (rows with equal started_at come in any order).
ExportSessionOrders(st) ==
    {[i \in DOMAIN q |->
        [id |-> q[i], project |-> st.sessions[q[i]].project,
         directory |-> st.sessions[q[i]].directory,
         started_at |-> st.sessions[q[i]].started_at,
         ended_at |-> st.sessions[q[i]].ended_at,
         summary |-> st.sessions[q[i]].summary]] :
     q \in {o \in Perms(DOMAIN st.sessions) :
              \A i, j \in DOMAIN o :
                 i < j => st.sessions[o[i]].started_at <= st.sessions[o[j]].started_at}}

\* SELECT ... FROM observations ORDER BY id
ExportObservations(st) == SortSeq(st.observations, LAMBDA a, b : a.id < b.id)

\* SELECT ... FROM user_prompts ORDER BY id, each row scanned into a Prompt,
\* whose Project is a string.
ExportPrompts(st) ==
    LET rows == SortSeq(st.user_prompts, LAMBDA a, b : a.id < b.id)
    IN  [i \in DOMAIN rows |->
           [id |-> rows[i].id, session_id |-> rows[i].session_id,
            content |-> rows[i].content,
            project |-> IF ScanStringOK(rows[i].project)
                        THEN rows[i].project[1] ELSE "",
            created_at |-> rows[i].created_at]]

\* Whether Export returns an error: a prompt row cannot be scanned.
ExportFails(st) ==
    \E i \in DOMAIN st.user_prompts : ~ScanStringOK(st.user_prompts[i].project)

\* The snapshots Export can return on st (none when it fails).
ExportResults(st) ==
    IF ExportFails(st) THEN {}
    ELSE {[sessions |-> ss, observations |-> ExportObservations(st),
           prompts |-> ExportPrompts(st)] : ss \in ExportSessionOrders(st)}

\* An Import that merges: an observation whose title and content the table
\* already has is left out.
ImportStatementsMerged(data) ==
    LET new == SelectSeq(data.observations,
                   LAMBDA o : \A i \in DOMAIN observations :
                       \/ observations[i].title # o.title
                       \/ observations[i].content # o.content)
    IN  [i \in DOMAIN data.sessions |-> [kind |-> "session", row |-> data.sessions[i]]]
        \o [i \in DOMAIN new |-> [kind |-> "observation", row |-> new[i]]]
        \o [i \in DOMAIN data.prompts |-> [kind |-> "prompt", row |-> data.prompts[i]]]

\* The statements of Import, in the order of its three loops.
ImportStatements(data) ==
    [i \in DOMAIN data.sessions |-> [kind |-> "session", row |-> data.sessions[i]]]
    \o [i \in DOMAIN data.observations |->
          [kind |-> "observation", row |-> data.observations[i]]]
    \o [i \in DOMAIN data.prompts |-> [kind |-> "prompt", row |-> data.prompts[i]]]

\* One tx.Exec of Import.
ImportExec(st, fk, stmt) ==
    CASE stmt.kind = "session" ->
           InsertSessionOrIgnore(st, stmt.row.id,
               [project |-> stmt.row.project, directory |-> stmt.row.directory,
                started_at |-> stmt.row.started_at, ended_at |-> stmt.row.ended_at,
                summary |-> stmt.row.summary])
      [] stmt.kind = "observation" ->
           InsertObservation(st, fk,
               [session_id |-> stmt.row.session_id, type |-> stmt.row.type,
                title |-> stmt.row.title, content |-> stmt.row.content,
                tool_name |-> stmt.row.tool_name, project |-> stmt.row.project,
                created_at |-> stmt.row.created_at])
      [] stmt.kind = "prompt" ->
           InsertPrompt(st, fk,
               [session_id |-> stmt.row.session_id, content |-> stmt.row.content,
                project |-> <<stmt.row.project>>, created_at |-> stmt.row.created_at])

\* The loops of Import from statement k on. The statement numbered failAt
\* fails with a storage error (0: none does). res counts what was inserted.
RECURSIVE ImportLoop(_, _, _, _, _, _)
ImportLoop(st, stmts, k, fk, failAt, res) ==
    IF k > Len(stmts) THEN [ok |-> TRUE, st |-> st, res |-> res, done |-> k - 1]
    ELSE IF k = failAt THEN [ok |-> FALSE, st |-> st, res |-> res, done |-> k - 1]
    ELSE LET r == ImportExec(st, fk, stmts[k])
             kind == stmts[k].kind
         IN  IF ~r.ok THEN [ok |-> FALSE, st |-> r.st, res |-> res, done |-> k - 1]
             ELSE ImportLoop(r.st, stmts, k + 1, fk, failAt,
                     [res EXCEPT ![kind] = @ + (IF kind = "session" THEN r.n ELSE 1)])

\* A transaction whose early return leaves its writes in place.
TxOutcomeNoRollback(before, r) == r.st

\* A rollback that restores the tables and leaves the indices as written.
TxOutcomeIndexKept(before, r) ==
    IF r.ok THEN r.st
    ELSE [before EXCEPT !.observations_fts = r.st.observations_fts,
                        !.prompts_fts = r.st.prompts_fts]

\* tx.Commit on success, the deferred tx.Rollback on an early return.
TxOutcome(before, r) == IF r.ok THEN r.st ELSE before

\* Store.Import on database st.
ImportRun(st, data, fk, failAt) ==
    LET r == ImportLoop(st, ImportStatements(data), 1, fk, failAt,
                        [session |-> 0, observation |-> 0, prompt |-> 0])
    IN  [ok |-> r.ok, st |-> TxOutcome(st, r), res |-> r.res, done |-> r.done]

Import(data, fk, failAt) ==
    LET r == ImportRun(DB, data, fk, failAt)
    IN  /\ Commit(r.st)
        /\ ret' = [op |-> "Import", data |-> data, err |-> ~r.ok,
                   res |-> IF r.ok THEN r.res
                           ELSE [session |-> 0, observation |-> 0, prompt |-> 0],
                   \* the statements executed before the one the error names
                   done |-> r.done]
        /\ UNCHANGED <<now, pc, known, todo, tally, applied, sync_dir, knownSessions, toolCounts, inflight, engram_up, ensured, calls>>

Export ==
    /\ \/ /\ ExportFails(DB)
          /\ ret' = [op |-> "Export", err |-> TRUE]
       \/ \E data \in ExportResults(DB) :
             ret' = [op |-> "Export", err |-> FALSE, data |-> data]
    /\ UNCHANGED <<sessions, observations, user_prompts, obs_seq, prompt_seq,
                   observations_fts, prompts_fts, sync_chunks, now,
                   pc, known, todo, tally, applied, sync_dir, knownSessions, toolCounts, inflight, engram_up, ensured, calls>>

(***************************************************************************)
(* Store: the read path and the context digest.                            *)
(***************************************************************************)
MaxContextResults == 20

RecentSessionsLimit == 5

RecentPromptsLimit == 10

SummaryDigestLength == 200

PromptDigestLength == 200

ContentDigestLength == 300

Range(q) == {q[i] : i \in DOMAIN q}

\* ORDER BY <key> DESC LIMIT n over the rows S: every result the sort allows.
OrderByDescLimit(S, Key(_), n) ==
    {SubSeq(q, 1, Min({n, Len(q)})) :
       q \in {o \in Perms(S) : \A i, j \in DOMAIN o : i < j => Key(o[i]) >= Key(o[j])}}

\* ORDER BY <key> ASC LIMIT n over the rows S: every result the sort allows.
\* Rows with equal keys come in an order SQL leaves open.
OrderByAscLimit(S, Key(_), n) ==
    {SubSeq(q, 1, Min({n, Len(q)})) :
       q \in {o \in Perms(S) : \A i, j \in DOMAIN o : i < j => Key(o[i]) <= Key(o[j])}}

\* truncate(s, max)
truncate(s, max) ==
    IF Len(s) <= max THEN s ELSE SubSeq(s, 1, max) \o <<".", ".", ".">>

\* RecentSessions: a SessionSummary per session, with its observation count.
RecentSessions(st, project, limit) ==
    LET ids == {id \in DOMAIN st.sessions :
                  project # "" => st.sessions[id].project = project}
        Summary(id) ==
            [id |-> id, project |-> st.sessions[id].project,
             started_at |-> st.sessions[id].started_at,
             ended_at |-> st.sessions[id].ended_at,
             summary |-> st.sessions[id].summary,
             observation_count |->
                 Cardinality({i \in DOMAIN st.observations :
                                st.observations[i].session_id = id})]
    IN  OrderByDescLimit({Summary(id) : id \in ids},
                         LAMBDA r : r.started_at, limit)

\* RecentObservations
RecentObservations(st, project, limit) ==
    OrderByDescLimit({o \in Range(st.observations) :
                        project # "" => o.project = <<project>>},
                     LAMBDA r : r.created_at, limit)

\* RecentPrompts: the rows the query returns, and whether scanning them fails.
RecentPrompts(st, project, limit) ==
    {[err |-> \E i \in DOMAIN q : ~ScanStringOK(q[i].project), rows |-> q] :
       q \in OrderByDescLimit({p \in Range(st.user_prompts) :
                                 project # "" => p.project = <<project>>},
                              LAMBDA r : r.created_at, limit)}

\* SessionObservations: limit <= 0 becomes 200; WHERE session_id = ? ORDER BY
\* created_at ASC LIMIT ?.
DefaultSessionObservationsLimit == 200

SessionObservations(sessionID, limit) ==
    /\ \E q \in OrderByAscLimit(
                  {o \in Range(observations) : o.session_id = sessionID},
                  LAMBDA r : r.created_at,
                  IF limit <= 0 THEN DefaultSessionObservationsLimit ELSE limit) :
          ret' = [op |-> "SessionObservations", session_id |-> sessionID,
                  limit |-> limit, err |-> FALSE, rows |-> q]
    /\ UNCHANGED <<sessions, observations, user_prompts, obs_seq, prompt_seq,
                   observations_fts, prompts_fts, sync_chunks, now,
                   pc, known, todo, tally, applied, sync_dir, knownSessions, toolCounts, inflight, engram_up, ensured, calls>>

\* GetObservation: the row with this id, or sql.ErrNoRows.
GetObservation(id) ==
    /\ LET found == {o \in Range(observations) : o.id = id}
       IN  ret' = IF found = {}
                  THEN [op |-> "GetObservation", id |-> id, err |-> TRUE]
                  ELSE [op |-> "GetObservation", id |-> id, err |-> FALSE,
                        obs |-> CHOOSE o \in found : TRUE]
    /\ UNCHANGED <<sessions, observations, user_prompts, obs_seq, prompt_seq,
                   observations_fts, prompts_fts, sync_chunks, now,
                   pc, known, todo, tally, applied, sync_dir, knownSessions, toolCounts, inflight, engram_up, ensured, calls>>

\* The digest FormatContext builds from non-empty lists: a header, then a line
\* per session, per prompt and per observation.
Digest(ss, ps, os) ==
    <<[line |-> "## Memory from Previous Sessions"]>>
    \o [i \in DOMAIN ss |->
          [line |-> "session", project |-> ss[i].project,
           started_at |-> ss[i].started_at,
           summary |-> IF ss[i].summary = <<>> THEN <<>>
                       ELSE <<truncate(ss[i].summary[1], SummaryDigestLength)>>,
           observation_count |-> ss[i].observation_count]]
    \o [i \in DOMAIN ps |->
          [line |-> "prompt", created_at |-> ps[i].created_at,
           content |-> truncate(ps[i].content, PromptDigestLength)]]
    \o [i \in DOMAIN os |->
          [line |-> "observation", type |-> os[i].type, title |-> os[i].title,
           content |-> truncate(os[i].content, ContentDigestLength)]]

\* FormatContext: an empty text is the empty string.
FormatContext(project) ==
    /\ \E ss \in RecentSessions(DB, project, RecentSessionsLimit),
          os \in RecentObservations(DB, project, MaxContextResults),
          pr \in RecentPrompts(DB, project, RecentPromptsLimit) :
          ret' = [op |-> "FormatContext", project |-> project, err |-> pr.err,
                  text |-> IF pr.err \/ (ss = <<>> /\ os = <<>> /\ pr.rows = <<>>)
                           THEN <<>> ELSE Digest(ss, pr.rows, os)]
    /\ UNCHANGED <<sessions, observations, user_prompts, obs_seq, prompt_seq,
                   observations_fts, prompts_fts, sync_chunks, now,
                   pc, known, todo, tally, applied, sync_dir, knownSessions, toolCounts, inflight, engram_up, ensured, calls>>

\* Store.GetSession: the session row, or nil (the empty sequence) when no
\* session has this id.
\* A lookup that returns the first session there is for an id that has no
\* row.
GetSessionOrAny(st, id) ==
    LET sid == IF id \in DOMAIN st.sessions \/ DOMAIN st.sessions = {}
               THEN id ELSE CHOOSE x \in DOMAIN st.sessions : TRUE
    IN  IF sid \in DOMAIN st.sessions
        THEN <<[id |-> sid, project |-> st.sessions[sid].project,
                directory |-> st.sessions[sid].directory,
                started_at |-> st.sessions[sid].started_at,
                ended_at |-> st.sessions[sid].ended_at,
                summary |-> st.sessions[sid].summary]>>
        ELSE <<>>

\* Store.GetSession: the row of the session, none when the id has no row.
GetSession(st, id) ==
    IF id \in DOMAIN st.sessions
    THEN <<[id |-> id, project |-> st.sessions[id].project,
            directory |-> st.sessions[id].directory,
            started_at |-> st.sessions[id].started_at,
            ended_at |-> st.sessions[id].ended_at,
            summary |-> st.sessions[id].summary]>>
    ELSE <<>>

\* The window Timeline takes for a count that is zero or negative.
DefaultWindow == 5

\* LIMIT n
Limit(q, n) == SubSeq(q, 1, IF n < Len(q) THEN n ELSE Len(q))

\* The entries left as the before query returns them, newest first.
ReverseOmitted(s) == s

\* The in-place reversal of beforeEntries.
Reverse(s) == [i \in 1..Len(s) |-> s[Len(s) + 1 - i]]

\* A row scanned into a TimelineEntry. IsFocus is never set.
TimelineEntry(o) ==
    [id |-> o.id, session_id |-> o.session_id, type |-> o.type,
     title |-> o.title, content |-> o.content, tool_name |-> o.tool_name,
     project |-> o.project, created_at |-> o.created_at, is_focus |-> FALSE]

\* WHERE session_id = ? AND id < ? ORDER BY id DESC LIMIT ?
BeforeQuery(st, session_id, id, n) ==
    Limit(SortSeq(SelectSeq(st.observations,
                            LAMBDA o : o.session_id = session_id /\ o.id < id),
                  LAMBDA x, y : x.id > y.id), n)

\* WHERE session_id = ? AND id > ? ORDER BY id ASC LIMIT ?
AfterQuery(st, session_id, id, n) ==
    Limit(SortSeq(SelectSeq(st.observations,
                            LAMBDA o : o.session_id = session_id /\ o.id > id),
                  LAMBDA x, y : x.id < y.id), n)

\* SELECT COUNT(*) FROM observations WHERE session_id = ?
CountInSession(st, session_id) ==
    Cardinality({i \in DOMAIN st.observations :
                   st.observations[i].session_id = session_id})

\* A default that replaces negative counts only.
EffectiveWindowZeroKept(n) == IF n < 0 THEN DefaultWindow ELSE n

\* if before <= 0 { before = 5 }, and the same for after.
EffectiveWindow(n) == IF n <= 0 THEN DefaultWindow ELSE n

Timeline(observationID, before, after) ==
    /\ LET b == EffectiveWindow(before)
           a == EffectiveWindow(after)
           found == {o \in Range(observations) : o.id = observationID}
       IN  ret' =
             IF found = {}
             THEN [op |-> "Timeline", id |-> observationID, before |-> before,
                   after |-> after, err |-> TRUE]
             ELSE LET focus == CHOOSE o \in found : TRUE
                      bq == BeforeQuery(DB, focus.session_id, observationID, b)
                      aq == AfterQuery(DB, focus.session_id, observationID, a)
                  IN  [op |-> "Timeline", id |-> observationID,
                       before |-> before, after |-> after, err |-> FALSE,
                       result |->
                         [Focus |-> focus,
                          Before |-> Reverse([i \in DOMAIN bq |-> TimelineEntry(bq[i])]),
                          After |-> [i \in DOMAIN aq |-> TimelineEntry(aq[i])],
                          SessionInfo |-> GetSession(DB, focus.session_id),
                          TotalInRange |-> CountInSession(DB, focus.session_id)]]
    /\ UNCHANGED <<sessions, observations, user_prompts, obs_seq, prompt_seq,
                   observations_fts, prompts_fts, sync_chunks, now,
                   pc, known, todo, tally, applied, sync_dir, knownSessions, toolCounts, inflight, engram_up, ensured, calls>>
\* Store.Stats on database st. Projects is sorted and distinct: a set.
Stats(st) ==
    [total_sessions |-> Cardinality(DOMAIN st.sessions),
     total_observations |-> Len(st.observations),
     total_prompts |-> Len(st.user_prompts),
     projects |-> {o.project[1] : o \in {x \in Range(st.observations) : x.project # <<>>}}]

\* Store.Stats on the store when the query named by fault fails with a
\* storage error ("none": no query fails). The error of a COUNT is dropped by
\* QueryRow(...).Scan(...), which leaves the counter 0; on the error of the
\* projects query Stats returns stats, nil.
StatsCall(fault) ==
    /\ ret' = [op |-> "Stats", fault |-> fault, err |-> FALSE,
               stats |->
                 [total_sessions |->
                     IF fault = "sessions" THEN 0 ELSE Stats(DB).total_sessions,
                  total_observations |->
                     IF fault = "observations" THEN 0 ELSE Stats(DB).total_observations,
                  total_prompts |->
                     IF fault = "prompts" THEN 0 ELSE Stats(DB).total_prompts,
                  projects |->
                     IF fault = "projects" THEN {} ELSE Stats(DB).projects]]
    /\ UNCHANGED <<sessions, observations, user_prompts, obs_seq, prompt_seq,
                   observations_fts, prompts_fts, sync_chunks, now,
                   pc, known, todo, tally, applied, sync_dir, knownSessions, toolCounts, inflight, engram_up, ensured, calls>>

\* Export of database st, Import of the snapshot into a new database, and
\* Export and Stats of that one: every outcome.
RoundTripResults(st, fk) ==
    LET none == [sessions |-> <<>>, observations |-> <<>>, prompts |-> <<>>]
    IN  IF ExportFails(st)
        THEN {[export_err |-> TRUE, import_err |-> FALSE, again_err |-> FALSE,
               data |-> none, again |-> none,
               stats |-> Stats(st), stats_copy |-> Stats(EmptyDB)]}
        ELSE UNION
             {LET r == ImportRun(EmptyDB, data, fk, 0)
              IN  IF ExportFails(r.st)
                  THEN {[export_err |-> FALSE, import_err |-> ~r.ok,
                         again_err |-> TRUE, data |-> data, again |-> none,
                         stats |-> Stats(st), stats_copy |-> Stats(r.st)]}
                  ELSE {[export_err |-> FALSE, import_err |-> ~r.ok,
                         again_err |-> FALSE, data |-> data, again |-> again,
                         stats |-> Stats(st), stats_copy |-> Stats(r.st)] :
                          again \in ExportResults(r.st)} :
              data \in ExportResults(st)}

\* engram export on this store, then engram import of the file on a new
\* data directory.
RoundTrip(fk) ==
    /\ \E r \in RoundTripResults(DB, fk) :
          ret' = [op |-> "RoundTrip", fk |-> fk, r |-> r]
    /\ UNCHANGED <<sessions, observations, user_prompts, obs_seq, prompt_seq,
                   observations_fts, prompts_fts, sync_chunks, now,
                   pc, known, todo, tally, applied, sync_dir, knownSessions, toolCounts, inflight, engram_up, ensured, calls>>

(***************************************************************************)
(* Store: full-text search.                                                *)
(***************************************************************************)
\* Config.MaxSearchResults: the most results one Search may return.
MaxSearchResults == 2

\* Chunks the model lets sync Export write.
MaxChunks == 2

\* The most observations in the search scenario.
MaxSearchRows == 3

\* The limit Search takes for a limit that is zero or negative.
DefaultSearchLimit == 10

Letters ==
    {"a", "b", "c", "d", "e", "f", "g", "h", "i", "j", "k", "l", "m",
     "n", "o", "p", "q", "r", "s", "t", "u", "v", "w", "x", "y", "z"}

Digits == {"0", "1", "2", "3", "4", "5", "6", "7", "8", "9"}

\* The characters the index's tokenizer (unicode61) keeps in a token; every
\* other character separates tokens.
IsTokenChar(c) == Lower(c) \in Letters \cup Digits

\* The tokens of the text s from position i on, cur being the token under
\* way: maximal runs of token characters, folded to lower case.
RECURSIVE TokensFrom(_, _, _)
TokensFrom(s, i, cur) ==
    LET done == IF cur = <<>> THEN <<>> ELSE <<cur>>
    IN  IF i > Len(s) THEN done
        ELSE IF IsTokenChar(s[i]) THEN TokensFrom(s, i + 1, Append(cur, Lower(s[i])))
        ELSE done \o TokensFrom(s, i + 1, <<>>)

Tokenize(s) == TokensFrom(s, 1, <<>>)

\* The characters of the type, tool and project names of the model.
Spell(name) ==
    CASE name = "bugfix" -> <<"b", "u", "g", "f", "i", "x">>
      [] name = "manual" -> <<"m", "a", "n", "u", "a", "l">>
      [] name = "bash" -> <<"b", "a", "s", "h">>
      [] name = "p1" -> <<"p", "1">>
      [] name = "p2" -> <<"p", "2">>
      [] OTHER -> <<>>

\* strings.Fields from position i on, cur being the word under way.
RECURSIVE FieldsFrom(_, _, _)
FieldsFrom(s, i, cur) ==
    LET done == IF cur = <<>> THEN <<>> ELSE <<cur>>
    IN  IF i > Len(s) THEN done
        ELSE IF ~IsSpace(s[i]) THEN FieldsFrom(s, i + 1, Append(cur, s[i]))
        ELSE done \o FieldsFrom(s, i + 1, <<>>)

\* strings.Trim(w, "\"")
TrimQuotes(w) ==
    LET keep == {i \in 1..Len(w) : w[i] # "\""}
    IN  IF keep = {} THEN <<>> ELSE SubSeq(w, Min(keep), Max(keep))

\* strings.Join(words, " ")
RECURSIVE Join(_)
Join(words) ==
    IF words = <<>> THEN <<>>
    ELSE IF Len(words) = 1 THEN words[1]
    ELSE words[1] \o <<" ">> \o Join(Tail(words))

\* sanitizeFTS: every word of the query between double quotes.
sanitizeFTS(query) ==
    LET words == FieldsFrom(query, 1, <<>>)
    IN  Join([i \in DOMAIN words |-> <<"\"">> \o TrimQuotes(words[i]) \o <<"\"">>])

\* The position of the quote that ends the string begun before position i,
\* a doubled quote standing for a quote inside the string; 0 when the string
\* is not ended.
RECURSIVE StringEnd(_, _)
StringEnd(e, i) ==
    IF i > Len(e) THEN 0
    ELSE IF e[i] # "\"" THEN StringEnd(e, i + 1)
    ELSE IF i < Len(e) /\ e[i + 1] = "\"" THEN StringEnd(e, i + 2)
    ELSE i

\* The end of the bareword that starts at position i.
RECURSIVE BarewordEnd(_, _)
BarewordEnd(e, i) ==
    IF i < Len(e) /\ IsTokenChar(e[i + 1]) THEN BarewordEnd(e, i + 1) ELSE i

\* The match expression e read from position i on: strings and barewords,
\* each a phrase, joined by the implicit AND. ok is FALSE on a syntax error.
RECURSIVE ParseMatchFrom(_, _)
ParseMatchFrom(e, i) ==
    IF i > Len(e) THEN [ok |-> TRUE, phrases |-> <<>>]
    ELSE IF IsSpace(e[i]) THEN ParseMatchFrom(e, i + 1)
    ELSE IF e[i] = "\""
         THEN LET j == StringEnd(e, i + 1)
              IN  IF j = 0 THEN [ok |-> FALSE, phrases |-> <<>>]
                  ELSE LET rest == ParseMatchFrom(e, j + 1)
                       IN  [ok |-> rest.ok,
                            phrases |-> <<SubSeq(e, i + 1, j - 1)>> \o rest.phrases]
    ELSE IF IsTokenChar(e[i])
         THEN LET j == BarewordEnd(e, i)
                  rest == ParseMatchFrom(e, j + 1)
              IN  [ok |-> rest.ok, phrases |-> <<SubSeq(e, i, j)>> \o rest.phrases]
    ELSE [ok |-> FALSE, phrases |-> <<>>]

\* MATCH ?: an expression without a phrase is a syntax error.
ParseMatch(e) ==
    LET r == ParseMatchFrom(e, 1)
    IN  IF r.ok /\ r.phrases = <<>> THEN [ok |-> FALSE, phrases |-> <<>>] ELSE r

\* Whether the tokens ts occur next to each other, in order, in the tokens xs.
HasPhrase(xs, ts) ==
    \E i \in 1..(Len(xs) - Len(ts) + 1) : SubSeq(xs, i, i + Len(ts) - 1) = ts

\* The tokens of each column of an observations_fts document.
ObservationColumns(doc) ==
    {Tokenize(doc.title), Tokenize(doc.content), Tokenize(Spell(doc.type)),
     IF doc.tool_name = <<>> THEN <<>> ELSE Tokenize(Spell(doc.tool_name[1])),
     IF doc.project = <<>> THEN <<>> ELSE Tokenize(Spell(doc.project[1]))}

\* A match that takes one phrase for all of them.
MatchesAnyPhrase(columns, phrases) ==
    LET terms == {Tokenize(phrases[i]) : i \in DOMAIN phrases} \ {<<>>}
    IN  \E ts \in terms : \E xs \in columns : HasPhrase(xs, ts)

\* Whether a document matches the phrases: a phrase without tokens is left
\* out of the expression, an expression without phrases matches nothing, and
\* every other phrase must occur in some column.
MatchesPhrases(columns, phrases) ==
    LET terms == {Tokenize(phrases[i]) : i \in DOMAIN phrases} \ {<<>>}
    IN  /\ terms # {}
        /\ \A ts \in terms : \E xs \in columns : HasPhrase(xs, ts)

\* The rows the query of Search selects, before ORDER BY and LIMIT.
SearchMatches(st, phrases, opts) ==
    {o \in Range(st.observations) :
       /\ \E doc \in st.observations_fts :
             doc.rowid = o.id /\ MatchesPhrases(ObservationColumns(doc), phrases)
       /\ opts.type # "" => o.type = opts.type
       /\ opts.project # "" => o.project = <<opts.project>>}

\* A limit that is not clamped to MaxSearchResults.
SearchLimitUnclamped(limit) == IF limit <= 0 THEN DefaultSearchLimit ELSE limit

\* The limit Search puts in its query: the default for a limit that is zero
\* or negative, then at most MaxSearchResults.
SearchLimit(limit) ==
    LET l0 == IF limit <= 0 THEN DefaultSearchLimit ELSE limit
    IN  IF l0 > MaxSearchResults THEN MaxSearchResults ELSE l0

\* Store.Search: ORDER BY fts.rank LIMIT ? returns, in the order of the
\* ranks, as many of the matches as the limit allows.
SearchResults(st, query, opts) ==
    LET limit == SearchLimit(opts.limit)
        parsed == ParseMatch(sanitizeFTS(query))
        matches == SearchMatches(st, parsed.phrases, opts)
        n == IF limit < Cardinality(matches) THEN limit ELSE Cardinality(matches)
    IN  IF ~parsed.ok THEN {[err |-> TRUE, results |-> <<>>]}
        ELSE {[err |-> FALSE, results |-> q] :
                q \in UNION {Perms(R) : R \in {X \in SUBSET matches : Cardinality(X) = n}}}

Search(query, opts) ==
    /\ \E r \in SearchResults(DB, query, opts) :
          ret' = [op |-> "Search", query |-> query, opts |-> opts,
                  err |-> r.err, results |-> r.results]
    /\ UNCHANGED <<sessions, observations, user_prompts, obs_seq, prompt_seq,
                   observations_fts, prompts_fts, sync_chunks, now,
                   pc, known, todo, tally, applied, sync_dir, knownSessions, toolCounts, inflight, engram_up, ensured, calls>>

(***************************************************************************)
(* Inputs of the calls.                                                    *)
(***************************************************************************)
Repeat(c, n) == [i \in 1..n |-> c]

TxtPlain == <<"a">>

\* "a<private>k</private>"
TxtSpan == <<"a">> \o OpenTag \o <<"k">> \o CloseTag

\* "<PRIVATE>k": an opening tag that is never closed
TxtOpen == OpenTagUpper \o <<"k">>

\* "<private><private>a</private>k</private>": a span inside a span
TxtNested == OpenTag \o OpenTag \o <<"a">> \o CloseTag \o <<"k">> \o CloseTag

\* One character more than MaxObservationLength.
TxtLong == Repeat("a", MaxObservationLength + 1)

\* A span that starts before and ends after position MaxObservationLength.
TxtStraddle == Repeat("a", MaxObservationLength - 2) \o TxtSpan

\* Exactly MaxObservationLength long.
TxtExact == Repeat("a", MaxObservationLength)

\* Longer than MaxObservationLength, and exactly that long once its span is
\* redacted.
TxtExactRedacted ==
    Repeat("a", MaxObservationLength - Len(Redacted)) \o OpenTag \o <<"k">> \o CloseTag

\* Saves with contents below, at and above MaxObservationLength, before and
\* after redaction.
TruncateObservationArgs ==
    {[session_id |-> "s1", type |-> "manual", title |-> TxtPlain,
      content |-> t, tool_name |-> "", project |-> "p1"] :
       t \in {TxtPlain, TxtSpan, TxtExact, TxtExactRedacted, TxtLong, TxtStraddle}}

\* Longer than any text the write path stores.
TxtHuge == Repeat("a", MaxObservationLength + Len(TruncatedSuffix) + 1)

SessionIDs == {"s1", "s2"}

SessionArgs ==
    {[project |-> "p1", directory |-> "/d1"], [project |-> "p2", directory |-> "/d2"]}

\* The project and directory the agent host of each session passes.
HostArgs ==
    [id \in SessionIDs |->
       IF id = "s1" THEN [project |-> "p1", directory |-> "/d1"]
       ELSE [project |-> "p2", directory |-> "/d2"]]

Summaries == {<<>>, <<"o", "k">>}

ProjectArgs == {"", "p1"}

\* AddObservationParams the callers pass.
ObservationArgs ==
    {[session_id |-> "s1", type |-> "bugfix", title |-> TxtPlain,
      content |-> TxtPlain, tool_name |-> "bash", project |-> "p1"],
     [session_id |-> "s1", type |-> "manual", title |-> TxtSpan,
      content |-> TxtOpen, tool_name |-> "", project |-> ""],
     [session_id |-> "s2", type |-> "bugfix", title |-> TxtPlain,
      content |-> TxtLong, tool_name |-> "", project |-> "p1"]}

\* AddPromptParams the callers pass.
PromptArgs ==
    {[session_id |-> "s1", content |-> TxtSpan, project |-> "p1"],
     [session_id |-> "s2", content |-> TxtPlain, project |-> ""]}

\* A snapshot another store exported: one session, one observation, one prompt.
SnapshotA ==
    [sessions |-> <<[id |-> "s1", project |-> "p2", directory |-> "/d2",
                     started_at |-> 0, ended_at |-> <<0>>, summary |-> <<>>]>>,
     observations |-> <<[id |-> 7, session_id |-> "s1", type |-> "bugfix",
                         title |-> TxtPlain, content |-> TxtPlain,
                         tool_name |-> <<"bash">>, project |-> <<"p2">>,
                         created_at |-> 0]>>,
     prompts |-> <<[id |-> 3, session_id |-> "s1", content |-> TxtPlain,
                    project |-> "p2", created_at |-> 0]>>]

\* A snapshot file written by hand: texts no write path produced, and a
\* prompt of a session that is neither in the snapshot nor, maybe, in the store.
SnapshotB ==
    [sessions |-> <<[id |-> "s1", project |-> "p1", directory |-> "/d1",
                     started_at |-> 0, ended_at |-> <<>>, summary |-> <<>>]>>,
     observations |-> <<[id |-> 1, session_id |-> "s1", type |-> "manual",
                         title |-> TxtSpan, content |-> TxtHuge,
                         tool_name |-> <<>>, project |-> <<>>,
                         created_at |-> 0]>>,
     prompts |-> <<[id |-> 1, session_id |-> "s2", content |-> TxtSpan,
                    project |-> "", created_at |-> 0]>>]

Snapshots == {SnapshotA, SnapshotB}

\* The most statements an Import of one of the snapshots executes.
MaxStatements == Max({Len(ImportStatements(data)) : data \in Snapshots})

\* "<PRIVATE>k k</PRIVATE> a": a span with tags in upper case
TxtUpperSpan == OpenTagUpper \o <<"k", " ", "k">> \o CloseTagUpper \o <<" ", "a">>

\* "<private>k</private>a<private>k</private>": two spans
TxtTwoSpans == OpenTag \o <<"k">> \o CloseTag \o <<"a">> \o OpenTag \o <<"k">> \o CloseTag

\* "<private>k\nk</private>": a span over two lines
TxtMultiline == OpenTag \o <<"k", "\n", "k">> \o CloseTag

\* Texts whose every "k" lies inside a well-formed <private>...</private> span.
RedactTexts ==
    {TxtSpan, TxtUpperSpan, TxtTwoSpans, TxtMultiline, TxtStraddle, TxtNested}

\* Saves whose title or content has a span.
RedactObservationArgs ==
    {[session_id |-> "s1", type |-> "manual", title |-> TxtPlain,
      content |-> t, tool_name |-> "", project |-> "p1"] : t \in RedactTexts}
    \cup {[session_id |-> "s1", type |-> "manual", title |-> TxtSpan,
           content |-> TxtPlain, tool_name |-> "bash", project |-> ""]}

\* Prompts whose content has a span.
RedactPromptArgs ==
    {[session_id |-> "s1", content |-> t, project |-> "p1"] :
       t \in {TxtSpan, TxtStraddle, TxtNested}}

\* The queries of the callers of Search: the text of the spans, a word outside
\* them, the marker.
QueryArgs ==
    {<<"k">>, <<"a">>, <<"r", "e", "d", "a", "c", "t", "e", "d">>}

SearchOptionArgs ==
    {[type |-> "", project |-> "", limit |-> 0],
     [type |-> "manual", project |-> "p1", limit |-> 1]}

\* The pieces of a text given to the redactor.
StripTokens == {OpenTag, CloseTag, OpenTagUpper, <<"k">>, <<" ">>}

\* The pieces of ts, one after the other.
RECURSIVE Flatten(_)
Flatten(ts) == IF ts = <<>> THEN <<>> ELSE Head(ts) \o Flatten(Tail(ts))

\* Every text of at most MaxTokens pieces, and the span inside a span.
StripInputs ==
    {Flatten(ts) : ts \in UNION {[1..n -> StripTokens] : n \in 0..MaxTokens}}
    \cup {TxtNested, TxtMultiline}

\* The observations of the search scenario: one with the word a, in upper
\* case, next to another word, one without it.
SearchObservationArgs ==
    {[session_id |-> "s1", type |-> "manual", title |-> <<"k">>,
      content |-> <<"A", " ", "k">>, tool_name |-> "bash", project |-> "p2"],
     [session_id |-> "s1", type |-> "bugfix", title |-> <<"k">>,
      content |-> <<"k">>, tool_name |-> "", project |-> "p1"]}

\* The queries of the search scenario: a word of every observation, a word
\* of one, two words, a word and punctuation, two words joined by
\* punctuation, a tool name, a word of no observation.
SearchQueryArgs ==
    {<<"k">>, <<"a">>, <<"a", " ", "k">>, <<"a", " ", "!">>,
     <<"a", "!", "k">>, <<"b", "a", "s", "h">>, <<"x">>}

\* The options of the search scenario: the default limit, a limit under and
\* over MaxSearchResults, a negative limit with a type and a project.
SearchScenarioOptions ==
    {[type |-> "", project |-> "", limit |-> 0],
     [type |-> "", project |-> "", limit |-> 1],
     [type |-> "", project |-> "", limit |-> MaxSearchResults + 2],
     [type |-> "manual", project |-> "p2", limit |-> -1]}

\* The pieces of a query given to Search: a letter, a double quote, a space,
\* a punctuation mark.
QueryTokens == {<<"a">>, <<"\"">>, <<" ">>, <<"!">>}

\* Every query of at most MaxTokens pieces.
QueryInputs ==
    {Flatten(ts) : ts \in UNION {[1..n -> QueryTokens] : n \in 0..MaxTokens}}

\* The observations of the timeline scenario: plain saves in two sessions.
TimelineArgs ==
    {[session_id |-> "s1", type |-> "bugfix", title |-> TxtPlain,
      content |-> TxtPlain, tool_name |-> "bash", project |-> "p1"],
     [session_id |-> "s2", type |-> "manual", title |-> TxtPlain,
      content |-> TxtPlain, tool_name |-> "", project |-> ""]}

\* The before and after counts the callers of Timeline pass.
WindowArgs ==
    {[before |-> 0, after |-> 0], [before |-> 1, after |-> 2],
     [before |-> 2, after |-> 1], [before |-> -1, after |-> -1]}

(***************************************************************************)
(* Sync import runs.                                                       *)
(***************************************************************************)
\* The engram sync --import processes that can run at the same time.
Procs == {1, 2}

\* The chunks in the sync directory, in the order Import enumerates them.
DiskChunks == <<"c1", "c2">>

ChunkIDs == Range(DiskChunks)

\* The envelope each chunk file holds.
ChunkData(c) ==
    IF c = "c1" THEN SnapshotA
    ELSE [sessions |-> <<[id |-> "s2", project |-> "p1", directory |-> "/d1",
                          started_at |-> 0, ended_at |-> <<>>, summary |-> <<>>]>>,
          observations |-> <<[id |-> 1, session_id |-> "s2", type |-> "manual",
                              title |-> TxtPlain, content |-> TxtPlain,
                              tool_name |-> <<>>, project |-> <<"p1">>,
                              created_at |-> 0]>>,
          prompts |-> <<>>]

\* The counters of a run's result.
ZeroTally == [imported |-> 0, skipped |-> 0]

(***************************************************************************)
(* The store under calls from its callers.                                 *)
(***************************************************************************)
\* Rows in the observations and user_prompts tables.
Rows == Len(observations) + Len(user_prompts)

Init ==
    /\ sessions = <<>>
    /\ observations = <<>>
    /\ user_prompts = <<>>
    /\ obs_seq = 0
    /\ prompt_seq = 0
    /\ observations_fts = {}
    /\ prompts_fts = {}
    /\ sync_chunks = {}
    /\ now = 0
    /\ ret = [op |-> "New", err |-> FALSE]
    /\ pc = [p \in Procs |-> "idle"]
    /\ known = [p \in Procs |-> {}]
    /\ todo = [p \in Procs |-> <<>>]
    /\ tally = [p \in Procs |-> ZeroTally]
    /\ applied = [c \in ChunkIDs |-> 0]
    /\ sync_dir = [chunks |-> {}, manifest |-> <<>>]
    /\ knownSessions = <<>>
    /\ toolCounts = <<>>
    /\ inflight = <<>>
    /\ engram_up = TRUE
    /\ ensured = {}
    /\ calls = <<>>

Next ==
    \/ \E id \in SessionIDs : CreateSession(id, HostArgs[id].project, HostArgs[id].directory)
    \/ \E id \in SessionIDs : EndSession(id, <<"o", "k">>)
    \/ \E p \in ObservationArgs, fk \in BOOLEAN :
          AddObservation(p, fk) /\ Rows' <= MaxRows
    \/ \E p \in PromptArgs, fk \in BOOLEAN :
          AddPrompt(p, fk) /\ Rows' <= MaxRows
    \/ \E data \in Snapshots, fk \in BOOLEAN, failAt \in 0..MaxStatements :
          /\ failAt <= Len(ImportStatements(data))
          /\ Import(data, fk, failAt)
          /\ Rows' <= MaxRows
    \/ Export
    \/ \E id \in 1..MaxRows : GetObservation(id)
    \/ \E project \in ProjectArgs \cup {"p2"} : FormatContext(project)

Spec == Init /\ [][Next]_vars

(***************************************************************************)
(* Sessions created, re-created and ended while the clock moves on.        *)
(***************************************************************************)
NextSession ==
    \/ \E id \in SessionIDs, a \in SessionArgs :
          CreateSession(id, a.project, a.directory)
    \/ \E id \in SessionIDs, summary \in Summaries : EndSession(id, summary)
    \/ \E p \in TimelineArgs :
          AddObservation(p, TRUE) /\ p.session_id = "s1" /\ Len(observations') <= 1
    \/ \E p \in PromptArgs :
          AddPrompt(p, TRUE) /\ p.session_id = "s1" /\ Len(user_prompts') <= 1
    \/ Tick

SpecSession == Init /\ [][NextSession]_vars

(***************************************************************************)
(* The timeline of sessions that grow by plain saves.                      *)
(***************************************************************************)
NextTimeline ==
    \/ CreateSession("s1", HostArgs["s1"].project, HostArgs["s1"].directory)
    \/ \E p \in TimelineArgs, fk \in BOOLEAN :
          AddObservation(p, fk) /\ Len(observations') <= MaxTimelineRows
    \/ \E id \in 1..(MaxTimelineRows + 1), w \in WindowArgs :
          Timeline(id, w.before, w.after)

SpecTimeline == Init /\ [][NextTimeline]_vars

(***************************************************************************)
(* A store written by its callers on the connection New configured (with   *)
(* foreign keys enforced), exported and imported elsewhere.                *)
(***************************************************************************)
NextRoundTrip ==
    \/ \E id \in SessionIDs :
          CreateSession(id, HostArgs[id].project, HostArgs[id].directory)
    \/ \E id \in SessionIDs : EndSession(id, <<"o", "k">>)
    \/ \E p \in ObservationArgs : AddObservation(p, TRUE) /\ Rows' <= MaxRows
    \/ \E p \in PromptArgs : AddPrompt(p, TRUE) /\ Rows' <= MaxRows
    \/ \E fk \in BOOLEAN : RoundTrip(fk)

SpecRoundTrip == Init /\ [][NextRoundTrip]_vars

(***************************************************************************)
(* Saves of texts with private spans, and searches.                        *)
(***************************************************************************)
NextRedact ==
    \/ CreateSession("s1", HostArgs["s1"].project, HostArgs["s1"].directory)
    \/ \E p \in RedactObservationArgs, fk \in BOOLEAN :
          AddObservation(p, fk) /\ Rows' <= MaxRows
    \/ \E p \in RedactPromptArgs, fk \in BOOLEAN :
          AddPrompt(p, fk) /\ Rows' <= MaxRows
    \/ \E query \in QueryArgs, opts \in SearchOptionArgs : Search(query, opts)

SpecRedact == Init /\ [][NextRedact]_vars

(***************************************************************************)
(* The sync engine's Import, run by several processes on one database.     *)
(* Each step is one database call of a run; between two steps any other    *)
(* process can take a step, and a process can stop.                        *)
(***************************************************************************)
\* Store.GetSyncedChunks
GetSyncedChunks(st) == st.sync_chunks

\* Store.RecordSyncedChunk: INSERT OR IGNORE INTO sync_chunks
RecordSyncedChunk(st, chunkID) == [st EXCEPT !.sync_chunks = @ \cup {chunkID}]

\* A run starts: it reads the recorded chunk ids and enumerates the chunks
\* on disk.
SyncStart(p) ==
    /\ pc[p] = "idle"
    /\ pc' = [pc EXCEPT ![p] = "loop"]
    /\ known' = [known EXCEPT ![p] = GetSyncedChunks(DB)]
    /\ todo' = [todo EXCEPT ![p] = DiskChunks]
    /\ tally' = [tally EXCEPT ![p] = ZeroTally]
    /\ UNCHANGED <<sessions, observations, user_prompts, obs_seq, prompt_seq,
                   observations_fts, prompts_fts, sync_chunks, now, ret, applied, sync_dir, knownSessions, toolCounts, inflight, engram_up, ensured, calls>>

\* The next chunk is one the run read as recorded: it is skipped.
SyncSkip(p) ==
    /\ pc[p] = "loop"
    /\ todo[p] # <<>>
    /\ Head(todo[p]) \in known[p]
    /\ tally' = [tally EXCEPT ![p].skipped = @ + 1]
    /\ todo' = [todo EXCEPT ![p] = Tail(@)]
    /\ UNCHANGED <<sessions, observations, user_prompts, obs_seq, prompt_seq,
                   observations_fts, prompts_fts, sync_chunks, now, ret,
                   pc, known, applied, sync_dir, knownSessions, toolCounts, inflight, engram_up, ensured, calls>>

\* The next chunk is not one the run read as recorded: Store.Import applies
\* its envelope, in a transaction of its own.
SyncApply(p, fk) ==
    /\ pc[p] = "loop"
    /\ todo[p] # <<>>
    /\ Head(todo[p]) \notin known[p]
    /\ applied[Head(todo[p])] < MaxApplied
    /\ LET c == Head(todo[p])
           r == ImportRun(DB, ChunkData(c), fk, 0)
       IN  /\ Commit(r.st)
           /\ applied' = [applied EXCEPT ![c] = IF r.ok THEN @ + 1 ELSE @]
           /\ pc' = [pc EXCEPT ![p] = IF r.ok THEN "record" ELSE "idle"]
           /\ ret' = IF r.ok THEN ret
                     ELSE [op |-> "SyncImport", proc |-> p, err |-> TRUE,
                           known |-> known[p], result |-> ZeroTally]
    /\ UNCHANGED <<now, known, todo, tally, sync_dir, knownSessions, toolCounts, inflight, engram_up, ensured, calls>>

\* Store.RecordSyncedChunk records the chunk just applied.
SyncRecord(p) ==
    /\ pc[p] = "record"
    /\ Commit(RecordSyncedChunk(DB, Head(todo[p])))
    /\ tally' = [tally EXCEPT ![p].imported = @ + 1]
    /\ todo' = [todo EXCEPT ![p] = Tail(@)]
    /\ pc' = [pc EXCEPT ![p] = "loop"]
    /\ UNCHANGED <<now, ret, known, applied, sync_dir, knownSessions, toolCounts, inflight, engram_up, ensured, calls>>

\* Every chunk on disk was visited: the run returns its result.
SyncReturn(p) ==
    /\ pc[p] = "loop"
    /\ todo[p] = <<>>
    /\ ret' = [op |-> "SyncImport", proc |-> p, err |-> FALSE,
               known |-> known[p], result |-> tally[p]]
    /\ pc' = [pc EXCEPT ![p] = "idle"]
    /\ UNCHANGED <<sessions, observations, user_prompts, obs_seq, prompt_seq,
                   observations_fts, prompts_fts, sync_chunks, now,
                   known, todo, tally, applied, sync_dir, knownSessions, toolCounts, inflight, engram_up, ensured, calls>>

\* The process stops between two database calls.
SyncStop(p) ==
    /\ pc[p] \in {"loop", "record"}
    /\ pc' = [pc EXCEPT ![p] = "idle"]
    /\ UNCHANGED <<sessions, observations, user_prompts, obs_seq, prompt_seq,
                   observations_fts, prompts_fts, sync_chunks, now, ret,
                   known, todo, tally, applied, sync_dir, knownSessions, toolCounts, inflight, engram_up, ensured, calls>>

NextSync ==
    \/ \E p \in Procs : SyncStart(p)
    \/ \E p \in Procs : SyncSkip(p)
    \/ \E p \in Procs, fk \in BOOLEAN : SyncApply(p, fk)
    \/ \E p \in Procs : SyncRecord(p)
    \/ \E p \in Procs : SyncReturn(p)
    \/ \E p \in Procs : SyncStop(p)

SpecSync == Init /\ [][NextSync]_vars

(***************************************************************************)
(* Sync engine: Export of the rows not exported before as a chunk.         *)
(***************************************************************************)
\* The prompts of the sync export scenario: of a project, of none.
SyncPromptArgs ==
    {[session_id |-> "s1", content |-> TxtPlain, project |-> "p1"],
     [session_id |-> "s1", content |-> TxtPlain, project |-> ""]}

\* The user name sync Export runs under.
Usernames == {"u"}

\* The rows of a snapshot of the given project; every row for no project
\* (the --all toggle).
FilterByProject(data, project) ==
    IF project = "" THEN data
    ELSE [sessions |-> SelectSeq(data.sessions, LAMBDA r : r.project = project),
          observations |->
              SelectSeq(data.observations, LAMBDA r : r.project = <<project>>),
          prompts |-> SelectSeq(data.prompts, LAMBDA r : r.project = project)]

\* The ids of the rows of a list in the chunks of the sync directory.
ExportedIDs(dir, list) ==
    UNION {{c.payload[list][i].id : i \in DOMAIN c.payload[list]} : c \in dir.chunks}

\* A delta that leaves out nothing: every row again.
SyncDeltaAll(data, dir) == data

\* The rows of a snapshot that no chunk of the sync directory has.
SyncDelta(data, dir) ==
    [list \in {"sessions", "observations", "prompts"} |->
        SelectSeq(data[list], LAMBDA r : r.id \notin ExportedIDs(dir, list))]

IsEmptyPayload(payload) ==
    payload.sessions = <<>> /\ payload.observations = <<>> /\ payload.prompts = <<>>

\* The chunk id: a hash of the payload, taken to have no collisions.
ChunkID(payload) == payload

\* sync Export(username, project): Store.Export, the rows of the project not
\* exported before, the chunk written under the id derived from them, the
\* manifest updated, the chunk id recorded. An empty delta writes nothing.
SyncExport(username, project) ==
    /\ \/ /\ ExportFails(DB)
          /\ ret' = [op |-> "SyncExport", project |-> project, err |-> TRUE,
                     is_empty |-> FALSE, chunk_id |-> <<>>]
          /\ UNCHANGED <<sync_chunks, sync_dir, knownSessions, toolCounts, inflight, engram_up, ensured, calls>>
       \/ \E data \in ExportResults(DB) :
             LET delta == SyncDelta(FilterByProject(data, project), sync_dir)
                 id == ChunkID(delta)
             IN  IF IsEmptyPayload(delta)
                 THEN /\ ret' = [op |-> "SyncExport", project |-> project,
                                 err |-> FALSE, is_empty |-> TRUE, chunk_id |-> <<>>]
                      /\ UNCHANGED <<sync_chunks, sync_dir, knownSessions, toolCounts, inflight, engram_up, ensured, calls>>
                 ELSE /\ sync_dir' =
                           [chunks |-> sync_dir.chunks \cup
                               {[id |-> id, created_by |-> username, payload |-> delta]},
                            manifest |-> Append(sync_dir.manifest, id)]
                      /\ sync_chunks' = RecordSyncedChunk(DB, id).sync_chunks
                      /\ ret' = [op |-> "SyncExport", project |-> project,
                                 err |-> FALSE, is_empty |-> FALSE, chunk_id |-> <<id>>]
    /\ UNCHANGED <<sessions, observations, user_prompts, obs_seq, prompt_seq,
                   observations_fts, prompts_fts, now,
                   pc, known, todo, tally, applied, knownSessions, toolCounts, inflight, engram_up, ensured, calls>>

NextSyncExport ==
    \/ CreateSession("s1", HostArgs["s1"].project, HostArgs["s1"].directory)
    \/ \E p \in ObservationArgs :
          /\ p.session_id = "s1"
          /\ AddObservation(p, TRUE)
          /\ Len(observations') <= MaxRows
    \/ \E p \in SyncPromptArgs :
          AddPrompt(p, TRUE) /\ Len(user_prompts') <= 1
    \/ \E username \in Usernames, project \in ProjectArgs :
          SyncExport(username, project) /\ Len(sync_dir'.manifest) <= MaxChunks
    \/ Tick

SpecSyncExport == Init /\ [][NextSyncExport]_vars

(***************************************************************************)
(* The redactor applied to a text, and to its own result.                  *)
(***************************************************************************)
\* The store after New, before any call.
StoreNew ==
    /\ sessions = <<>>
    /\ observations = <<>>
    /\ user_prompts = <<>>
    /\ obs_seq = 0
    /\ prompt_seq = 0
    /\ observations_fts = {}
    /\ prompts_fts = {}
    /\ sync_chunks = {}
    /\ now = 0
    /\ pc = [p \in Procs |-> "idle"]
    /\ known = [p \in Procs |-> {}]
    /\ todo = [p \in Procs |-> <<>>]
    /\ tally = [p \in Procs |-> ZeroTally]
    /\ applied = [c \in ChunkIDs |-> 0]
    /\ sync_dir = [chunks |-> {}, manifest |-> <<>>]
    /\ knownSessions = <<>>
    /\ toolCounts = <<>>
    /\ inflight = <<>>
    /\ engram_up = TRUE
    /\ ensured = {}
    /\ calls = <<>>

InitStrip ==
    /\ StoreNew
    /\ ret \in {[op |-> "text", x |-> x] : x \in StripInputs}

\* stripPrivateTags(x)
Strip ==
    /\ ret.op = "text"
    /\ ret' = [op |-> "strip", x |-> ret.x, y |-> stripPrivateTags(ret.x)]
    /\ UNCHANGED <<sessions, observations, user_prompts, obs_seq, prompt_seq,
                   observations_fts, prompts_fts, sync_chunks, now,
                   pc, known, todo, tally, applied, sync_dir, knownSessions, toolCounts, inflight, engram_up, ensured, calls>>

\* stripPrivateTags of the result of stripPrivateTags(x)
StripAgain ==
    /\ ret.op = "strip"
    /\ ret' = [op |-> "strip strip", x |-> ret.x, y |-> ret.y,
               yy |-> stripPrivateTags(ret.y)]
    /\ UNCHANGED <<sessions, observations, user_prompts, obs_seq, prompt_seq,
                   observations_fts, prompts_fts, sync_chunks, now,
                   pc, known, todo, tally, applied, sync_dir, knownSessions, toolCounts, inflight, engram_up, ensured, calls>>

NextStrip == Strip \/ StripAgain

SpecStrip == InitStrip /\ [][NextStrip]_vars

(***************************************************************************)
(* Observations saved, snapshots imported and the store exported while     *)
(* time passes.                                                            *)
(***************************************************************************)
NextHistory ==
    \/ \E id \in SessionIDs : CreateSession(id, HostArgs[id].project, HostArgs[id].directory)
    \/ \E p \in ObservationArgs :
          AddObservation(p, TRUE) /\ Len(observations') <= MaxRows
    \/ \E data \in Snapshots, fk \in BOOLEAN :
          Import(data, fk, 0) /\ Len(observations') <= MaxRows
    \/ Export
    \/ \E fault \in {"none", "sessions", "observations", "prompts", "projects"} :
          StatsCall(fault)
    \/ Tick

SpecHistory == Init /\ [][NextHistory]_vars

(***************************************************************************)
(* Observations saved, by a host and by the save command, with contents    *)
(* around MaxObservationLength.                                            *)
(***************************************************************************)
NextTruncate ==
    \/ CreateSession("s1", HostArgs["s1"].project, HostArgs["s1"].directory)
    \/ \E p \in TruncateObservationArgs, fk \in BOOLEAN :
          AddObservation(p, fk) /\ Len(observations') <= MaxRows
    \/ \E project \in ProjectArgs, fk \in BOOLEAN :
          /\ cmdSave(TxtPlain, TxtLong, "manual", project, fk)
          /\ Len(observations') <= MaxRows

SpecTruncate == Init /\ [][NextTruncate]_vars

(***************************************************************************)
(* The observations of a session, saved and imported while the clock moves *)
(* on, and listed.                                                         *)
(***************************************************************************)
NextSessionObservations ==
    \/ \E id \in SessionIDs :
          CreateSession(id, HostArgs[id].project, HostArgs[id].directory)
    \/ \E p \in ObservationArgs :
          AddObservation(p, TRUE) /\ Len(observations') <= MaxRows
    \/ \E data \in Snapshots :
          Import(data, TRUE, 0) /\ Len(observations') <= MaxRows
    \/ \E id \in SessionIDs, limit \in {0, 1, MaxRows} :
          SessionObservations(id, limit)
    \/ Tick

SpecSessionObservations == Init /\ [][NextSessionObservations]_vars

(***************************************************************************)
(* A store written by its callers on the connection New configured, and    *)
(* read.                                                                   *)
(***************************************************************************)
NextReads ==
    \/ \E id \in SessionIDs :
          CreateSession(id, HostArgs[id].project, HostArgs[id].directory)
    \/ \E id \in SessionIDs : EndSession(id, <<"o", "k">>)
    \/ \E p \in ObservationArgs : AddObservation(p, TRUE) /\ Rows' <= MaxRows
    \/ \E p \in PromptArgs : AddPrompt(p, TRUE) /\ Rows' <= MaxRows
    \/ Export
    \/ \E project \in ProjectArgs : FormatContext(project)

SpecReads == Init /\ [][NextReads]_vars

(***************************************************************************)
(* The OpenCode plugin: the events it handles and the requests it sends to *)
(* the engram server. A handler runs up to its next await of a request;    *)
(* Resume runs it on from there.                                           *)
(***************************************************************************)
\* The length above which the plugin cuts a prompt (2000 in the plugin).
PromptLimit == 24

\* A prompt is captured when it is longer than this (10 in the plugin).
TrivialPromptLength == 2

\* The handlers that wait for a response at one time.
MaxInflight == 2

\* The tool events of a session between two session ends.
MaxToolCalls == 2

\* The store's variables, which the plugin does not touch.
store_vars ==
    <<sessions, observations, user_prompts, obs_seq, prompt_seq,
      observations_fts, prompts_fts, sync_chunks, now,
      pc, known, todo, tally, applied, sync_dir>>

\* truncate(str, max) of the plugin.
pluginTruncate(str, max) ==
    IF Len(str) > max THEN SubSeq(str, 1, max) \o <<".", ".", ".">> ELSE str

\* stripPrivateTags(str) of the plugin:
\* str.replace(/<private>[\s\S]*?<\/private>/gi, "[REDACTED]").trim()
pluginStripPrivateTags(str) == TrimSpace(ReplaceAllFrom(str, 1))

ENGRAM_TOOLS ==
    {"mem_search", "mem_save", "mem_save_prompt", "mem_session_summary",
     "mem_context", "mem_stats", "mem_timeline", "mem_get_observation",
     "mem_session_start", "mem_session_end"}

\* input.tool.toLowerCase(), on the tool names of ToolArgs.
toLowerCase(tool) == IF tool = "Mem_Save" THEN "mem_save" ELSE tool

\* map.get(id) ?? 0
GetOrZero(map, id) == IF id \in DOMAIN map THEN map[id] ELSE 0

\* map.set(id, n)
MapSet(map, id, n) == [x \in DOMAIN map \cup {id} |-> IF x = id THEN n ELSE map[x]]

\* map.delete(id)
MapDelete(map, id) == [x \in DOMAIN map \ {id} |-> map[x]]

\* set.delete(id)
SetDelete(ks, id) == SelectSeq(ks, LAMBDA x : x # id)

\* ensureSession(sessionId) up to its await: the sessions known afterwards
\* and the request sent, if any.
ensureSession(ks, sessionId) ==
    IF sessionId = "" \/ sessionId \in Range(ks)
    THEN [known |-> ks, sent |-> <<>>]
    ELSE [known |-> Append(ks, sessionId),
          sent |-> <<[path |-> "/sessions", id |-> sessionId,
                      project |-> "p1", directory |-> "/d1"]>>]

\* The body the message.updated handler posts to /prompts.
PromptRequest(sessionId, content) ==
    [path |-> "/prompts", session_id |-> sessionId,
     content |-> pluginStripPrivateTags(pluginTruncate(content, PromptLimit)),
     project |-> "p1"]

\* The checkpoint the compacting hook posts to /observations.
CheckpointRequest(sessionId, count) ==
    [path |-> "/observations", session_id |-> sessionId, count |-> count,
     type |-> "session", tool_name |-> "compaction", project |-> "p1"]

\* The handler h of session id starts to wait for the response to path.
Await(h) == inflight' = Append(inflight, h)

\* engramFetch fails silently while the server is not running; the server
\* starts and stops.
EngramSwitch ==
    /\ engram_up' = ~engram_up
    /\ UNCHANGED <<knownSessions, toolCounts, inflight, ensured, calls, ret>>
    /\ UNCHANGED store_vars

\* event.type === "session.created"
SessionCreated(id) ==
    /\ LET e == ensureSession(knownSessions, id)
       IN  /\ knownSessions' = e.known
           /\ IF e.sent = <<>> THEN inflight' = inflight
              ELSE Await([h |-> "session.created", id |-> id, path |-> "/sessions"])
           /\ ret' = [op |-> "session.created", id |-> id, sent |-> e.sent]
    /\ UNCHANGED <<toolCounts, engram_up, ensured, calls>>
    /\ UNCHANGED store_vars

\* event.type === "session.idle": the summary is sent, and the counter and
\* the mark are deleted once the response is there.
SessionIdle(id) ==
    /\ Await([h |-> "session.idle", id |-> id, path |-> "/sessions/end"])
    /\ ret' = [op |-> "session.idle", id |-> id,
               sent |-> <<[path |-> "/sessions/end", id |-> id,
                           count |-> GetOrZero(toolCounts, id)]>>]
    /\ calls' = MapDelete(calls, id)
    /\ UNCHANGED <<knownSessions, toolCounts, engram_up, ensured>>
    /\ UNCHANGED store_vars

\* event.type === "session.deleted"
SessionDeleted(id) ==
    /\ toolCounts' = MapDelete(toolCounts, id)
    /\ knownSessions' = SetDelete(knownSessions, id)
    /\ calls' = MapDelete(calls, id)
    /\ ret' = [op |-> "session.deleted", id |-> id, sent |-> <<>>]
    /\ UNCHANGED <<inflight, engram_up, ensured>>
    /\ UNCHANGED store_vars

\* event.type === "message.updated" with role "user" and a string content.
MessageUpdated(content) ==
    /\ LET sessionId == IF knownSessions = <<>> THEN "unknown-session"
                        ELSE knownSessions[Len(knownSessions)]
           e == ensureSession(knownSessions, sessionId)
       IN  IF Len(content) <= TrivialPromptLength
           THEN /\ UNCHANGED <<knownSessions, inflight>>
                /\ ret' = [op |-> "message.updated", content |-> content,
                           sent |-> <<>>]
           ELSE IF e.sent = <<>>
           THEN /\ UNCHANGED <<knownSessions, inflight>>
                /\ ret' = [op |-> "message.updated", content |-> content,
                           sent |-> <<PromptRequest(sessionId, content)>>]
           ELSE /\ knownSessions' = e.known
                /\ Await([h |-> "message.updated", id |-> sessionId,
                          path |-> "/sessions", content |-> content])
                /\ ret' = [op |-> "message.updated", content |-> content,
                           sent |-> e.sent]
    /\ UNCHANGED <<toolCounts, engram_up, ensured, calls>>
    /\ UNCHANGED store_vars

\* "tool.execute.after"
ToolExecuteAfter(tool, sessionId) ==
    /\ IF toLowerCase(tool) \in ENGRAM_TOOLS
       THEN /\ UNCHANGED <<knownSessions, toolCounts, inflight, calls>>
            /\ ret' = [op |-> "tool.execute.after", tool |-> tool,
                       id |-> sessionId, sent |-> <<>>]
       ELSE LET e == ensureSession(knownSessions, sessionId)
            IN  /\ knownSessions' = e.known
                /\ calls' = MapSet(calls, sessionId, GetOrZero(calls, sessionId) + 1)
                /\ IF e.sent = <<>>
                   THEN /\ toolCounts' = MapSet(toolCounts, sessionId,
                                                GetOrZero(toolCounts, sessionId) + 1)
                        /\ inflight' = inflight
                   ELSE /\ toolCounts' = toolCounts
                        /\ Await([h |-> "tool.execute.after", id |-> sessionId,
                                  path |-> "/sessions"])
                /\ ret' = [op |-> "tool.execute.after", tool |-> tool,
                           id |-> sessionId, sent |-> e.sent]
    /\ UNCHANGED <<engram_up, ensured>>
    /\ UNCHANGED store_vars

\* "experimental.session.compacting", up to the checkpoint it posts.
SessionCompacting(sessionId) ==
    /\ LET e == ensureSession(knownSessions, sessionId)
       IN  /\ knownSessions' = e.known
           /\ IF e.sent = <<>>
              THEN /\ inflight' = inflight
                   /\ ret' = [op |-> "session.compacting", id |-> sessionId,
                              sent |-> <<CheckpointRequest(sessionId,
                                            GetOrZero(toolCounts, sessionId))>>]
              ELSE /\ Await([h |-> "session.compacting", id |-> sessionId,
                             path |-> "/sessions"])
                   /\ ret' = [op |-> "session.compacting", id |-> sessionId,
                              sent |-> e.sent]
    /\ UNCHANGED <<toolCounts, engram_up, ensured, calls>>
    /\ UNCHANGED store_vars

\* The request of the waiting handler inflight[i] is over, answered or
\* failed, and the handler runs on.
Resume(i) ==
    LET r == inflight[i]
        rest == SubSeq(inflight, 1, i - 1) \o SubSeq(inflight, i + 1, Len(inflight))
    IN  /\ inflight' = rest
        /\ ensured' = IF r.path = "/sessions" /\ engram_up
                      THEN ensured \cup {r.id} ELSE ensured
        /\ knownSessions' = IF r.h = "session.idle"
                            THEN SetDelete(knownSessions, r.id) ELSE knownSessions
        /\ toolCounts' =
             IF r.h = "session.idle" THEN MapDelete(toolCounts, r.id)
             ELSE IF r.h = "tool.execute.after"
             THEN MapSet(toolCounts, r.id, GetOrZero(toolCounts, r.id) + 1)
             ELSE toolCounts
        /\ ret' =
             IF r.h = "message.updated"
             THEN [op |-> r.h, content |-> r.content,
                   sent |-> <<PromptRequest(r.id, r.content)>>]
             ELSE IF r.h = "session.compacting"
             THEN [op |-> r.h, id |-> r.id,
                   sent |-> <<CheckpointRequest(r.id, GetOrZero(toolCounts, r.id))>>]
             ELSE [op |-> r.h, id |-> r.id, sent |-> <<>>]
        /\ UNCHANGED <<engram_up, calls>>
        /\ UNCHANGED store_vars

\* A plain prompt longer than PromptLimit.
PromptLong == Repeat("a", PromptLimit + 1)

\* A span whose text ends at position PromptLimit: its closing tag lies
\* beyond the cut.
PromptSpanCut ==
    Repeat("a", PromptLimit - Len(OpenTag) - 1) \o OpenTag \o <<"k">> \o CloseTag

\* A span that starts beyond position PromptLimit.
PromptSpanBeyond == Repeat("a", PromptLimit) \o TxtSpan

\* The user messages: every "k" lies inside a well-formed span.
MessageArgs ==
    {TxtPlain, TxtSpan, TxtUpperSpan, TxtTwoSpans, TxtMultiline, PromptLong,
     PromptSpanCut, PromptSpanBeyond}

\* The tools whose execution OpenCode reports.
ToolArgs == {"bash", "mem_save", "Mem_Save"}

\* The user's messages, sent to a plugin whose handlers wait for the server.
NextPlugin ==
    \/ \E id \in SessionIDs : SessionCreated(id) /\ Len(inflight') <= 1
    \/ \E id \in SessionIDs : SessionDeleted(id)
    \/ \E content \in MessageArgs : MessageUpdated(content) /\ Len(inflight') <= 1
    \/ \E i \in DOMAIN inflight : Resume(i)

SpecPlugin == Init /\ [][NextPlugin]_vars

\* The events of one session, with handlers that overlap and a server that
\* starts and stops.
NextPluginEvents ==
    \/ EngramSwitch
    \/ SessionCreated("s1") /\ Len(inflight') <= MaxInflight
    \/ SessionIdle("s1") /\ Len(inflight') <= MaxInflight
    \/ SessionDeleted("s1")
    \/ MessageUpdated(TxtSpan) /\ Len(inflight') <= MaxInflight
    \/ \E tool \in ToolArgs :
          /\ ToolExecuteAfter(tool, "s1")
          /\ Len(inflight') <= MaxInflight
          /\ GetOrZero(calls', "s1") <= MaxToolCalls
          /\ GetOrZero(toolCounts', "s1") <= MaxToolCalls
    \/ SessionCompacting("s1") /\ Len(inflight') <= MaxInflight
    \/ \E i \in DOMAIN inflight : Resume(i)

SpecPluginEvents == Init /\ [][NextPluginEvents]_vars

(***************************************************************************)
(* Observations saved and searched.                                        *)
(***************************************************************************)
NextSearch ==
    \/ CreateSession("s1", HostArgs["s1"].project, HostArgs["s1"].directory)
    \/ \E p \in SearchObservationArgs :
          AddObservation(p, TRUE) /\ Len(observations') <= MaxSearchRows
    \/ \E query \in SearchQueryArgs, opts \in SearchScenarioOptions :
          Search(query, opts)

SpecSearch == Init /\ [][NextSearch]_vars

(***************************************************************************)
(* The sanitizer applied to a query and to its own result, and Search      *)
(* called with the query.                                                  *)
(***************************************************************************)
InitSanitize ==
    /\ StoreNew
    /\ ret \in {[op |-> "query", q |-> q] : q \in QueryInputs}

\* sanitizeFTS(q)
Sanitize ==
    /\ ret.op = "query"
    /\ ret' = [op |-> "sanitize", q |-> ret.q, e |-> sanitizeFTS(ret.q)]
    /\ UNCHANGED <<sessions, observations, user_prompts, obs_seq, prompt_seq,
                   observations_fts, prompts_fts, sync_chunks, now,
                   pc, known, todo, tally, applied, sync_dir, knownSessions, toolCounts, inflight, engram_up, ensured, calls>>

\* sanitizeFTS of the result of sanitizeFTS(q)
SanitizeAgain ==
    /\ ret.op = "sanitize"
    /\ ret' = [op |-> "sanitize sanitize", q |-> ret.q, e |-> ret.e,
               ee |-> sanitizeFTS(ret.e)]
    /\ UNCHANGED <<sessions, observations, user_prompts, obs_seq, prompt_seq,
                   observations_fts, prompts_fts, sync_chunks, now,
                   pc, known, todo, tally, applied, sync_dir, knownSessions, toolCounts, inflight, engram_up, ensured, calls>>

\* Search(q, SearchOptions{})
SearchQuery ==
    /\ ret.op = "query"
    /\ Search(ret.q, [type |-> "", project |-> "", limit |-> 0])

NextSanitize == Sanitize \/ SanitizeAgain \/ SearchQuery

SpecSanitize == InitSanitize /\ [][NextSanitize]_vars

(***************************************************************************)
(* Properties of the store under Spec.  Every step of Spec is one call,    *)
(* and ret' names it.                                                      *)
(***************************************************************************)
\* The observations the last call returned, when it was a read.
ReturnedObservations ==
    CASE ret.op = "GetObservation" /\ ~ret.err -> {ret.obs}
      [] ret.op = "Export" /\ ~ret.err -> Range(ret.data.observations)
      [] OTHER -> {}

\* C1: after any sequence of CreateSession, EndSession, AddObservation,
\* AddPrompt and Import calls, no observation a read returns has the
\* substring <private>, in any letter case, in its title or its content.
C1_NoPrivateTagReturned ==
    \A o \in ReturnedObservations :
       ~ContainsFold(o.title, OpenTag) /\ ~ContainsFold(o.content, OpenTag)

\* The rows Import appends to a table for the rows of a snapshot list.
IsAppended(before, after, n) ==
    /\ Len(after) = Len(before) + n
    /\ SubSeq(after, 1, Len(before)) = before

\* C4: Store.Import is all or nothing. When it returns an error the
\* sessions, observations and user_prompts tables and both full-text
\* indices (and the rowid counters) are as before the call. When it returns
\* success every row of the snapshot is applied: each snapshot session id is
\* in the sessions table (a new one with the snapshot's columns), and each
\* snapshot observation and prompt is appended, in order, with its columns,
\* and is in its index.
C4_ImportAllOrNothing ==
    [][ret'.op = "Import" =>
         IF ret'.err
         THEN /\ Tables(DB)' = Tables(DB)
              /\ obs_seq' = obs_seq
              /\ prompt_seq' = prompt_seq
         ELSE LET data == ret'.data
                  no == Len(observations)
                  np == Len(user_prompts)
              IN  /\ \A i \in DOMAIN data.sessions :
                        /\ data.sessions[i].id \in DOMAIN sessions'
                        /\ data.sessions[i].id \notin DOMAIN sessions =>
                             /\ sessions'[data.sessions[i].id].project
                                  = data.sessions[i].project
                             /\ sessions'[data.sessions[i].id].summary
                                  = data.sessions[i].summary
                  /\ IsAppended(observations, observations', Len(data.observations))
                  /\ \A i \in DOMAIN data.observations :
                        /\ observations'[no + i].title = data.observations[i].title
                        /\ observations'[no + i].content = data.observations[i].content
                        /\ observations'[no + i].session_id
                             = data.observations[i].session_id
                        /\ \E d \in observations_fts' :
                              /\ d.rowid = observations'[no + i].id
                              /\ d.content = data.observations[i].content
                  /\ IsAppended(user_prompts, user_prompts', Len(data.prompts))
                  /\ \A i \in DOMAIN data.prompts :
                        /\ user_prompts'[np + i].content = data.prompts[i].content
                        /\ \E d \in prompts_fts' :
                              /\ d.rowid = user_prompts'[np + i].id
                              /\ d.content = data.prompts[i].content
      ]_vars

\* A failed Import that had executed statements, on a store that held rows.
C4_Witness ==
    /\ ret.op = "Import"
    /\ ret.err
    /\ ret.done >= 2
    /\ observations # <<>>

\* Whether the ids of the rows grow with their position (the order in which
\* the inserts completed).
IdsIncrease(rows) ==
    \A i, j \in DOMAIN rows : i < j <=> rows[i].id < rows[j].id

\* Whether every row added by a step has an id above every id of the table.
FreshIds(before, after) ==
    /\ Len(after) >= Len(before)
    /\ SubSeq(after, 1, Len(before)) = before
    /\ \A i \in (Len(before) + 1)..Len(after), j \in DOMAIN before :
          after[i].id > before[j].id

C9_ContentLengthBounded ==
    /\ \A i \in DOMAIN observations :
          Len(observations[i].content) <= MaxObservationLength + Len(TruncatedSuffix)
    /\ \A i \in DOMAIN user_prompts :
          Len(user_prompts[i].content) <= MaxObservationLength + Len(TruncatedSuffix)

\* C25: after any sequence of operations, every observation's session_id
\* and every prompt's session_id is the id of an existing session row:
\* AddObservation, AddPrompt and Import never leave a row that references a
\* session that does not exist.
C25_SessionExists ==
    /\ \A i \in DOMAIN observations : observations[i].session_id \in DOMAIN sessions
    /\ \A i \in DOMAIN user_prompts : user_prompts[i].session_id \in DOMAIN sessions

\* Whether the store holds no session, prompt or observation of the project
\* (of any project, for the empty project name).
NothingFor(project) ==
    IF project = ""
    THEN DOMAIN sessions = {} /\ observations = <<>> /\ user_prompts = <<>>
    ELSE /\ \A id \in DOMAIN sessions : sessions[id].project # project
         /\ \A i \in DOMAIN observations : observations[i].project # <<project>>
         /\ \A i \in DOMAIN user_prompts : user_prompts[i].project # <<project>>

\* C10: FormatContext(project) returns the empty string if and only if the
\* store holds no session, no prompt and no observation of that project (of
\* any project when project is ""); otherwise it returns a non-empty digest.
C10_FormatContextEmptyIff ==
    ret.op = "FormatContext" => (ret.text = <<>> <=> NothingFor(ret.project))

(***************************************************************************)
(* Properties of CreateSession under SpecSession.                          *)
(***************************************************************************)
\* C7: CreateSession is insert-on-conflict-ignore. A CreateSession with the
\* id of an existing session, with the same or another project and
\* directory, ended or not, returns no error and leaves the session's row
\* (project, directory, started_at, ended_at, summary) and every other table
\* unchanged.
C7_CreateSessionIgnoresExisting ==
    [][(ret'.op = "CreateSession" /\ ret'.id \in DOMAIN sessions) =>
         /\ ~ret'.err
         /\ sessions' = sessions
         /\ observations' = observations
         /\ user_prompts' = user_prompts
         /\ observations_fts' = observations_fts
         /\ prompts_fts' = prompts_fts
         /\ sync_chunks' = sync_chunks
         /\ obs_seq' = obs_seq
         /\ prompt_seq' = prompt_seq]_vars

\* A CreateSession has returned for the id of a session that has another
\* project and directory, started earlier and has been ended, while the other
\* tables hold rows.
C7_Witness ==
    /\ ret.op = "CreateSession"
    /\ ~ret.err
    /\ ret.id \in DOMAIN sessions
    /\ sessions[ret.id].project # ret.project
    /\ sessions[ret.id].directory # ret.directory
    /\ sessions[ret.id].started_at < now
    /\ sessions[ret.id].ended_at # <<>>
    /\ sessions[ret.id].summary # <<>>
    /\ observations # <<>>
    /\ user_prompts # <<>>

(***************************************************************************)
(* Properties of Timeline under SpecTimeline.                              *)
(***************************************************************************)
\* The observation a timeline entry shows.
EntryObservation(e) ==
    [id |-> e.id, session_id |-> e.session_id, type |-> e.type,
     title |-> e.title, content |-> e.content, tool_name |-> e.tool_name,
     project |-> e.project, created_at |-> e.created_at]

\* The ids of a list of entries grow.
Ascending(es) == \A i, j \in DOMAIN es : i < j => es[i].id < es[j].id

\* C6: for an existing pivot p and effective counts b and a, Timeline
\* returns Focus = p; Before = the min(b, number of earlier observations)
\* observations of p's session with the largest ids below p.id, in ascending
\* id order; After = the min(a, number of later observations) observations
\* of p's session with the smallest ids above p.id, in ascending id order;
\* TotalInRange = the number of observations of p's session. Hence Before
\* and After hold neither p nor an observation of another session and are
\* contiguous with p in the session's id order.
C6_TimelineWindow ==
    (ret.op = "Timeline" /\ ~ret.err) =>
        LET r == ret.result
            p == r.Focus
            b == IF ret.before <= 0 THEN DefaultWindow ELSE ret.before
            a == IF ret.after <= 0 THEN DefaultWindow ELSE ret.after
            S == {o \in Range(observations) : o.session_id = p.session_id}
            earlier == {o \in S : o.id < p.id}
            later == {o \in S : o.id > p.id}
            B == {EntryObservation(r.Before[i]) : i \in DOMAIN r.Before}
            A == {EntryObservation(r.After[i]) : i \in DOMAIN r.After}
        IN  /\ p \in Range(observations)
            /\ p.id = ret.id
            /\ Len(r.Before) = Min({b, Cardinality(earlier)})
            /\ B \subseteq earlier
            /\ \A o \in earlier \ B, e \in B : o.id < e.id
            /\ Ascending(r.Before)
            /\ Len(r.After) = Min({a, Cardinality(later)})
            /\ A \subseteq later
            /\ \A o \in later \ A, e \in A : e.id < o.id
            /\ Ascending(r.After)
            /\ r.TotalInRange = Cardinality(S)

\* Timeline has returned a window that is cut on both sides: two entries
\* before the pivot with an earlier one of the session left out, an entry
\* after it with a later one left out, and an observation of the other
\* session lying between the entries and the pivot.
C6_Witness ==
    /\ ret.op = "Timeline"
    /\ ~ret.err
    /\ Len(ret.result.Before) = 2
    /\ Len(ret.result.After) = 1
    /\ \E o \in Range(observations) :
          /\ o.session_id = ret.result.Focus.session_id
          /\ o.id < ret.result.Before[1].id
    /\ \E o \in Range(observations) :
          /\ o.session_id = ret.result.Focus.session_id
          /\ o.id > ret.result.After[1].id
    /\ \E o \in Range(observations) :
          /\ o.session_id # ret.result.Focus.session_id
          /\ o.id > ret.result.Before[1].id
          /\ o.id < ret.result.After[1].id

\* C21: Timeline fails with a not-found error, returns no result and changes
\* no state when the pivot observation id does not exist; when the pivot
\* exists but no session row has the pivot's session_id, Timeline succeeds
\* with SessionInfo null and with Before, After and TotalInRange computed as
\* for any other pivot.
C21_TimelinePivotAndSession ==
    [][ret'.op = "Timeline" =>
         LET pivots == {o \in Range(observations) : o.id = ret'.id}
         IN  /\ Tables(DB)' = Tables(DB)
             /\ obs_seq' = obs_seq
             /\ prompt_seq' = prompt_seq
             /\ sync_chunks' = sync_chunks
             /\ pivots = {} => (ret'.err /\ "result" \notin DOMAIN ret')
             /\ pivots # {} => ~ret'.err
             /\ \A p \in pivots :
                   p.session_id \notin DOMAIN sessions =>
                      LET r == ret'.result
                          b == IF ret'.before <= 0 THEN DefaultWindow ELSE ret'.before
                          a == IF ret'.after <= 0 THEN DefaultWindow ELSE ret'.after
                          S == {o \in Range(observations) : o.session_id = p.session_id}
                          earlier == {o.id : o \in {x \in S : x.id < p.id}}
                          later == {o.id : o \in {x \in S : x.id > p.id}}
                          B == {r.Before[i].id : i \in DOMAIN r.Before}
                          A == {r.After[i].id : i \in DOMAIN r.After}
                      IN  /\ r.SessionInfo = <<>>
                          /\ r.Focus = p
                          /\ B = {x \in earlier :
                                    Cardinality({y \in earlier : y > x}) < b}
                          /\ A = {x \in later :
                                    Cardinality({y \in later : y < x}) < a}
                          /\ Ascending(r.Before)
                          /\ Ascending(r.After)
                          /\ r.TotalInRange = Cardinality(S)]_vars

\* Timeline has returned for a pivot whose session has no row, while another
\* session has one: no SessionInfo, entries before and after the pivot.
C21_Witness ==
    /\ ret.op = "Timeline"
    /\ ~ret.err
    /\ ret.result.Focus.session_id \notin DOMAIN sessions
    /\ DOMAIN sessions # {}
    /\ ret.result.SessionInfo = <<>>
    /\ ret.result.Before # <<>>
    /\ ret.result.After # <<>>
    /\ ret.result.TotalInRange >= 3

\* C22: in Timeline a before or after argument that is zero or negative is
\* replaced by 5, so Timeline(id, 0, 0) returns up to 5 earlier and up to 5
\* later observations, and no argument value makes Timeline return an empty
\* window when earlier or later observations exist in the session.
C22_TimelineDefaultWindow ==
    (ret.op = "Timeline" /\ ~ret.err) =>
        LET r == ret.result
            S == {o \in Range(observations) : o.session_id = r.Focus.session_id}
            earlier == {o \in S : o.id < r.Focus.id}
            later == {o \in S : o.id > r.Focus.id}
        IN  /\ ret.before <= 0 => Len(r.Before) = Min({5, Cardinality(earlier)})
            /\ ret.after <= 0 => Len(r.After) = Min({5, Cardinality(later)})
            /\ earlier # {} => r.Before # <<>>
            /\ later # {} => r.After # <<>>

\* Timeline has returned for a negative before: five entries of the six
\* earlier observations of the session.
C22_Witness ==
    /\ ret.op = "Timeline"
    /\ ~ret.err
    /\ ret.before < 0
    /\ Len(ret.result.Before) = 5
    /\ Cardinality({o \in Range(observations) :
                      /\ o.session_id = ret.result.Focus.session_id
                      /\ o.id < ret.result.Focus.id}) > 5

(***************************************************************************)
(* Properties of the round trip under SpecRoundTrip.                       *)
(***************************************************************************)
\* The contents of a list of rows, in order.
Contents(rows) == [i \in DOMAIN rows |-> rows[i].content]

\* C8: for every store state reachable by CreateSession, EndSession,
\* AddObservation and AddPrompt, Export succeeds, and importing the snapshot
\* into a new empty store yields a store whose Export has the same set of
\* sessions, the same list of observation contents, the same list of prompt
\* contents, and whose Stats observation and prompt counts are the source's.
C8_RoundTrip ==
    ret.op = "RoundTrip" =>
        /\ ~ret.r.export_err
        /\ ~ret.r.import_err
        /\ ~ret.r.again_err
        /\ Range(ret.r.again.sessions) = Range(ret.r.data.sessions)
        /\ Contents(ret.r.again.observations) = Contents(ret.r.data.observations)
        /\ Contents(ret.r.again.prompts) = Contents(ret.r.data.prompts)
        /\ ret.r.stats_copy.total_observations = ret.r.stats.total_observations
        /\ ret.r.stats_copy.total_prompts = ret.r.stats.total_prompts

(***************************************************************************)
(* Properties of redaction under SpecRedact, whose input texts have the    *)
(* character "k" inside well-formed spans and nowhere else.                *)
(***************************************************************************)
\* The text enclosed in the spans of the inputs.
SpanText == <<"k">>

\* The texts a table and its index hold.
StoredTexts ==
    UNION {{o.title, o.content} : o \in Range(observations)}
    \cup UNION {{d.title, d.content} : d \in observations_fts}
    \cup {p.content : p \in Range(user_prompts)}
    \cup {d.content : d \in prompts_fts}

\* C2: for every AddObservation or AddPrompt whose title or content has a
\* well-formed <private>...</private> span, the text the span encloses is
\* never stored in a table or a full-text index: the stored text has
\* [REDACTED] in place of the span (redaction coming before truncation, so
\* that a span across the MaxObservationLength boundary is removed too), and
\* a Search for a token that occurred only inside the span returns nothing.
C2_SpanTextNeverStored ==
    /\ \A t \in StoredTexts : ~Contains(t, SpanText)
    /\ \A o \in Range(observations) :
          /\ o.title # TxtPlain => Contains(o.title, Redacted)
          /\ (o.content # TxtPlain /\ Len(o.content) <= MaxObservationLength)
                => Contains(o.content, Redacted)
    /\ (ret.op = "Search" /\ ret.query = SpanText) =>
          ~ret.err /\ ret.results = <<>>

(***************************************************************************)
(* Properties of the sync import runs under SpecSync.                      *)
(***************************************************************************)
\* C3: for any chunk id, the sync Import applies the chunk's contents to
\* the store at most once across all runs, runs that overlap in time and
\* runs that stop between applying the chunk and recording its id included;
\* and an Import that runs over the unchanged sync directory after an Import
\* has returned reports ChunksImported = 0 and counts each chunk in
\* ChunksSkipped.
C3_ChunkAppliedAtMostOnce ==
    /\ \A c \in ChunkIDs : applied[c] <= 1
    /\ (ret.op = "SyncImport" /\ ~ret.err /\ ret.known = ChunkIDs) =>
          /\ ret.result.imported = 0
          /\ ret.result.skipped = Len(DiskChunks)

(***************************************************************************)
(* Properties of the redactor under SpecStrip.                             *)
(***************************************************************************)
\* C13: the redactor is idempotent: for every text x,
\* strip(strip(x)) = strip(x), strip replacing every non-overlapping shortest
\* case-insensitive <private>...</private> match with [REDACTED] and then
\* trimming the surrounding whitespace.
C13_StripIdempotent ==
    ret.op = "strip strip" => ret.yy = ret.y

\* The redactor was applied twice to a text with two spans, each of which
\* the first application replaced.
C13_Witness ==
    /\ ret.op = "strip strip"
    /\ \E i \in 1..Len(ret.x) : i > 1 /\ MatchAt(ret.x, i, OpenTag)
                                   /\ MatchAt(ret.x, 1, OpenTag)
    /\ Len(ret.y) = 2 * Len(Redacted)
    /\ ret.y # ret.x

\* A text that is one span with one span nested in it:
\* <private><private>a</private>b</private>, a and b without tags.
IsNestedSpan(x) ==
    LET opens == {i \in 1..Len(x) : MatchAt(x, i, OpenTag)}
        closes == {i \in 1..Len(x) : MatchAt(x, i, CloseTag)}
    IN  /\ opens = {1, 1 + Len(OpenTag)}
        /\ Cardinality(closes) = 2
        /\ Max(closes) = Len(x) - Len(CloseTag) + 1

\* C14: for a text in which one span is nested inside another, strip
\* replaces the whole outer span, from the outer opening tag to the outer
\* closing tag, with exactly one [REDACTED], leaving none of the outer
\* span's text and no closing tag behind.
C14_NestedSpanReplacedWhole ==
    (ret.op = "strip" /\ IsNestedSpan(ret.x)) => ret.y = Redacted

(***************************************************************************)
(* Properties of the sanitizer under SpecSanitize.                         *)
(***************************************************************************)
\* The whitespace-separated tokens of a text.
Words(q) == FieldsFrom(q, 1, <<>>)

\* Whether out is the token w between one pair of double quotes (the quotes
\* around w itself taken off), with no double quote inside.
IsQuoted(out, w) ==
    /\ Len(out) >= 2
    /\ out[1] = "\""
    /\ out[Len(out)] = "\""
    /\ \A i \in 2..(Len(out) - 1) : out[i] # "\""
    /\ SubSeq(out, 2, Len(out) - 1) = TrimQuotes(w)

\* C15: for every query, sanitize produces a safe match expression: one
\* output token per whitespace-separated input token, each the input token
\* in exactly one pair of double quotes with no double quote left inside,
\* joined by single spaces; so Search on a query that has a token, whatever
\* its punctuation (double quotes inside a token included), never fails with
\* a match-syntax error; and sanitize(sanitize(q)) = sanitize(q).
C15_SanitizeSafe ==
    /\ ret.op = "sanitize" =>
          LET ws == Words(ret.q)
              outs == Words(ret.e)
          IN  /\ Len(outs) = Len(ws)
              /\ \A i \in DOMAIN ws : IsQuoted(outs[i], ws[i])
              /\ ret.e = Join(outs)
    /\ (ret.op = "Search" /\ Words(ret.query) # <<>>) => ~ret.err
    /\ ret.op = "sanitize sanitize" => ret.ee = ret.e

(***************************************************************************)
(* Properties of Search under SpecSearch.                                  *)
(***************************************************************************)
\* The words of the indexed fields of an observation, in lower case.
FieldWords(o) ==
    UNION {Range(xs) : xs \in ObservationColumns(o)}

\* The words of a token of a query, in lower case, punctuation left out.
TokenWords(w) == Range(Tokenize(w))

\* C11: Search(q, opts) returns only observations whose indexed fields
\* (title, content, tool_name, type, project) together contain every
\* whitespace-separated token of q, case and punctuation aside, and, when
\* opts.Type or opts.Project is non-empty, only observations whose type or
\* project equals that value; no observation that lacks one of the tokens is
\* returned.
C11_SearchContainsEveryToken ==
    (ret.op = "Search" /\ ~ret.err) =>
        \A i \in DOMAIN ret.results :
            LET o == ret.results[i]
                ws == Words(ret.query)
            IN  /\ \A j \in DOMAIN ws : TokenWords(ws[j]) \subseteq FieldWords(o)
                /\ ret.opts.type # "" => o.type = ret.opts.type
                /\ ret.opts.project # "" => o.project = <<ret.opts.project>>

\* A query of two tokens with a type and a project returns an observation
\* and leaves out one that has only one of the tokens.
C11_Witness ==
    /\ ret.op = "Search"
    /\ ~ret.err
    /\ Len(Words(ret.query)) = 2
    /\ ret.opts.type # ""
    /\ ret.results # <<>>
    /\ \E o \in Range(observations) :
          /\ o \notin Range(ret.results)
          /\ <<"k">> \in FieldWords(o)
          /\ <<"a">> \notin FieldWords(o)

\* C12: for every query and every limit, Search returns at most
\* min(limit, MaxSearchResults) results when limit > 0 and at most
\* min(10, MaxSearchResults) results when limit <= 0; never more than
\* MaxSearchResults.
C12_SearchLimit ==
    ret.op = "Search" =>
        /\ ret.opts.limit > 0 =>
              Len(ret.results) <= Min({ret.opts.limit, MaxSearchResults})
        /\ ret.opts.limit <= 0 =>
              Len(ret.results) <= Min({DefaultSearchLimit, MaxSearchResults})
        /\ Len(ret.results) <= MaxSearchResults

\* A Search with a limit over MaxSearchResults returns MaxSearchResults
\* observations of more that match.
C12_Witness ==
    /\ ret.op = "Search"
    /\ ret.opts.limit > MaxSearchResults
    /\ Len(ret.results) = MaxSearchResults
    /\ Cardinality(SearchMatches(DB, ParseMatch(sanitizeFTS(ret.query)).phrases,
                                 ret.opts)) > MaxSearchResults

(***************************************************************************)
(* Properties of the store under SpecHistory.                              *)
(***************************************************************************)
\* C16: after any sequence of AddObservation and Import, within every
\* session the created_at values of the observations are non-decreasing when
\* the observations are ordered by id.
C16_CreatedAtFollowsId ==
    \A o1, o2 \in Range(observations) :
        (o1.session_id = o2.session_id /\ o1.id < o2.id) =>
            o1.created_at <= o2.created_at

\* The ids of a snapshot's sessions.
SnapshotSessionIDs(data) == {data.sessions[i].id : i \in DOMAIN data.sessions}

\* C19: Import is additive and never merges. A snapshot session whose id
\* exists is skipped, its row left unchanged, and is not counted in
\* SessionsImported; every snapshot observation and prompt is inserted as a
\* new row with a fresh id greater than every existing id, whatever its id
\* in the snapshot; all rows present before the call are unchanged; so
\* importing a snapshot twice doubles its observations and prompts;
\* ObservationsImported and PromptsImported equal the lengths of the
\* snapshot's lists.
C19_ImportAdditive ==
    [][(ret'.op = "Import" /\ ~ret'.err /\ now' = now) =>
         LET data == ret'.data
         IN  /\ \A id \in DOMAIN sessions : sessions'[id] = sessions[id]
             /\ ret'.res.session
                  = Cardinality(SnapshotSessionIDs(data) \ DOMAIN sessions)
             /\ DOMAIN sessions' = DOMAIN sessions \cup SnapshotSessionIDs(data)
             /\ IsAppended(observations, observations', Len(data.observations))
             /\ IsAppended(user_prompts, user_prompts', Len(data.prompts))
             /\ FreshIds(observations, observations')
             /\ FreshIds(user_prompts, user_prompts')
             /\ IdsIncrease(observations')
             /\ IdsIncrease(user_prompts')
             /\ ret'.res.observation = Len(data.observations)
             /\ ret'.res.prompt = Len(data.prompts)]_vars

\* The second Import of a snapshot has returned: its session, which the
\* store had with another project, is not counted and keeps its row, and its
\* observation and its prompt are stored twice under ids that are not the
\* snapshot's.
C19_Witness ==
    /\ ret.op = "Import"
    /\ ~ret.err
    /\ ret.res.session = 0
    /\ ret.res.observation = 1
    /\ ret.res.prompt = 1
    /\ sessions[ret.data.sessions[1].id].project # ret.data.sessions[1].project
    /\ Len(observations) = 2
    /\ [observations[2] EXCEPT !.id = 0] = [observations[1] EXCEPT !.id = 0]
    /\ observations[2].title = ret.data.observations[1].title
    /\ observations[2].id # ret.data.observations[1].id
    /\ Len(user_prompts) = 2
    /\ [user_prompts[2] EXCEPT !.id = 0] = [user_prompts[1] EXCEPT !.id = 0]

\* The place of a session id in the ascending order of the ids.
SessionIDOrder(id) == CASE id = "s1" -> 1 [] id = "s2" -> 2

\* C20: Export returns every session, every observation and every prompt of
\* the store, each list in a stable ascending order of id: each list is
\* sorted by id ascending, so two Exports of one state return the same order.
C20_ExportAscendingById ==
    (ret.op = "Export" /\ ~ret.err) =>
        LET data == ret.data
        IN  /\ {data.sessions[i].id : i \in DOMAIN data.sessions} = DOMAIN sessions
            /\ Len(data.sessions) = Cardinality(DOMAIN sessions)
            /\ \A i, j \in DOMAIN data.sessions :
                  i < j => SessionIDOrder(data.sessions[i].id)
                             < SessionIDOrder(data.sessions[j].id)
            /\ Len(data.observations) = Len(observations)
            /\ {data.observations[i].id : i \in DOMAIN data.observations}
                 = {observations[i].id : i \in DOMAIN observations}
            /\ IdsIncrease(data.observations)
            /\ Len(data.prompts) = Len(user_prompts)
            /\ {data.prompts[i].id : i \in DOMAIN data.prompts}
                 = {user_prompts[i].id : i \in DOMAIN user_prompts}
            /\ IdsIncrease(data.prompts)

\* C24: no store operation catches and swallows a storage error: whenever a
\* database query or scan inside an operation fails, the operation returns
\* an error to its caller instead of a success result with missing or zeroed
\* data.
C24_NoSwallowedStorageError ==
    (ret.op = "Stats" /\ ret.fault # "none") => ret.err

(***************************************************************************)
(* Properties of EndSession under SpecSession.                             *)
(***************************************************************************)
\* C17: EndSession is not one-shot. Each EndSession(id, summary) on an
\* existing session, ended before or not, sets ended_at to the time of that
\* call and replaces the summary; an empty summary is stored as NULL, which
\* erases a summary set by an earlier call. No other session and no
\* observation or prompt is changed.
C17_EndSessionOverwrites ==
    [][(ret'.op = "EndSession" /\ now' = now /\ ret'.id \in DOMAIN sessions) =>
         /\ ~ret'.err
         /\ DOMAIN sessions' = DOMAIN sessions
         /\ sessions'[ret'.id].ended_at = <<now>>
         /\ sessions'[ret'.id].summary =
               (IF ret'.summary = <<>> THEN <<>> ELSE <<ret'.summary>>)
         /\ sessions'[ret'.id].project = sessions[ret'.id].project
         /\ sessions'[ret'.id].directory = sessions[ret'.id].directory
         /\ sessions'[ret'.id].started_at = sessions[ret'.id].started_at
         /\ \A id \in DOMAIN sessions \ {ret'.id} : sessions'[id] = sessions[id]
         /\ observations' = observations
         /\ user_prompts' = user_prompts]_vars

\* An EndSession with an empty summary has returned for a session that
\* started earlier: the session has the time of the call as its end and no
\* summary, while another session is ended with a summary and the other
\* tables hold rows.
C17_Witness ==
    /\ ret.op = "EndSession"
    /\ ret.id \in DOMAIN sessions
    /\ ret.summary = <<>>
    /\ sessions[ret.id].started_at < now
    /\ sessions[ret.id].ended_at = <<now>>
    /\ sessions[ret.id].summary = <<>>
    /\ \E id \in DOMAIN sessions \ {ret.id} :
          /\ sessions[id].ended_at # <<>>
          /\ sessions[id].summary # <<>>
    /\ observations # <<>>
    /\ user_prompts # <<>>

C23_TruncationBoundary ==
    [][(ret'.op = "AddObservation" /\ ~ret'.err) =>
         LET red == stripPrivateTags(ret'.p.content)
             row == observations'[Len(observations')]
         IN  /\ Len(observations') = Len(observations) + 1
             /\ row.id = ret'.id
             /\ (row.content = red) <=> (Len(red) <= MaxObservationLength)
             /\ Len(red) > MaxObservationLength =>
                   /\ SubSeq(row.content, 1, MaxObservationLength)
                        = SubSeq(red, 1, MaxObservationLength)
                   /\ SubSeq(row.content, MaxObservationLength + 1, Len(row.content))
                        = TruncatedSuffix]_vars

\* An AddObservation has returned whose content was longer than
\* MaxObservationLength and, once redacted, exactly that long: it is stored
\* whole, without the marker.
C23_Witness ==
    /\ ret.op = "AddObservation"
    /\ ~ret.err
    /\ Len(ret.p.content) > MaxObservationLength
    /\ \E o \in Range(observations) :
          /\ o.id = ret.id
          /\ Len(o.content) = MaxObservationLength
          /\ o.content = stripPrivateTags(ret.p.content)
          /\ Contains(o.content, Redacted)

\* C26: every session row has a non-empty project and a non-empty
\* directory: no sequence of CreateSession calls, those of the save command
\* included, or Import calls creates a session whose project or directory is
\* the empty string.
C26_SessionProjectAndDirectory ==
    \A id \in DOMAIN sessions :
        sessions[id].project # "" /\ sessions[id].directory # ""

(***************************************************************************)
(* Properties of SessionObservations under SpecSessionObservations.        *)
(***************************************************************************)

\* C27: SessionObservations(sessionID, limit) returns only observations of
\* that session, at most limit of them (200 when limit <= 0), in strictly
\* ascending order of creation time, and in the order in which they were
\* inserted, even when several were created within the same second.
C27_SessionObservationsOrder ==
    ret.op = "SessionObservations" =>
        /\ \A i \in DOMAIN ret.rows : ret.rows[i].session_id = ret.session_id
        /\ Len(ret.rows) <= (IF ret.limit <= 0
                             THEN DefaultSessionObservationsLimit ELSE ret.limit)
        /\ \A i, j \in DOMAIN ret.rows :
              i < j => /\ ret.rows[i].created_at < ret.rows[j].created_at
                       /\ ret.rows[i].id < ret.rows[j].id

(***************************************************************************)
(* Properties of the tables as a whole under Spec.                         *)
(***************************************************************************)

\* The operations that only read.
ReadOps == {"GetObservation", "FormatContext", "Export", "Timeline", "Search",
            "Stats", "SessionObservations"}

\* q is p with rows added at its end.
Extends(q, p) == Len(q) >= Len(p) /\ SubSeq(q, 1, Len(p)) = p

\* C28: stored data is append-only apart from session ends: no operation
\* deletes a session, an observation or a prompt, none changes a field of an
\* observation or a prompt once inserted; the only change of an existing row
\* is EndSession setting ended_at and summary of the session it names; the
\* read operations leave every table as it is.
C28_AppendOnly ==
    [][/\ DOMAIN sessions \subseteq DOMAIN sessions'
       /\ Extends(observations', observations)
       /\ Extends(user_prompts', user_prompts)
       /\ \A id \in DOMAIN sessions :
             sessions'[id] # sessions[id] =>
                /\ ret'.op = "EndSession"
                /\ ret'.id = id
                /\ sessions'[id].project = sessions[id].project
                /\ sessions'[id].directory = sessions[id].directory
                /\ sessions'[id].started_at = sessions[id].started_at
       /\ ret'.op \in ReadOps =>
             UNCHANGED <<sessions, observations, user_prompts, obs_seq,
                         prompt_seq, observations_fts, prompts_fts,
                         sync_chunks>>]_vars

\* A session that was created a second time after it was ended, in a store
\* that holds an observation: it is still ended.
C28_Witness ==
    /\ ret.op = "CreateSession"
    /\ ret.id \in DOMAIN sessions
    /\ sessions[ret.id].ended_at # <<>>
    /\ Len(observations) > 0

\* The documents the triggers write for the rows of each table.
ObservationDocs(rows) ==
    {[rowid |-> o.id, title |-> o.title, content |-> o.content,
      tool_name |-> o.tool_name, type |-> o.type, project |-> o.project] :
       o \in Range(rows)}

PromptDocs(rows) ==
    {[rowid |-> p.id, content |-> p.content, project |-> p.project] :
       p \in Range(rows)}

\* C29: in every state a reader can see, the observations index holds
\* exactly the rows of the observations table, with the same title, content,
\* tool_name, type and project, and the prompts index exactly the rows of the
\* prompts table, whether AddObservation, AddPrompt or Import wrote them; an
\* Import that rolls back leaves no index entry behind.
C29_IndexCoherent ==
    /\ observations_fts = ObservationDocs(observations)
    /\ prompts_fts = PromptDocs(user_prompts)

\* An Import has failed after inserting an observation, on a store whose
\* two indices hold documents.
C29_Witness ==
    /\ ret.op = "Import"
    /\ ret.err
    /\ ret.done >= 2
    /\ observations_fts # {}
    /\ prompts_fts # {}

(***************************************************************************)
(* Properties of the OpenCode plugin under SpecPlugin.                     *)
(***************************************************************************)

\* C30: the text inside a <private>...</private> span of a user message is
\* never sent to the server: the content the plugin posts to /prompts
\* contains none of the text that lay inside a span of the message, also
\* when the message is longer than the limit and is cut before it is
\* stripped.
C30_PrivateTextNeverPosted ==
    ret.op = "message.updated" =>
        \A i \in DOMAIN ret.sent :
            ret.sent[i].path = "/prompts" =>
                ~Contains(ret.sent[i].content, SpanText)

(***************************************************************************)
(* Properties of the plugin's handlers under SpecPluginEvents.             *)
(***************************************************************************)

\* The requests the last handler step has sent.
Sent == IF "sent" \in DOMAIN ret THEN ret.sent ELSE <<>>

\* C31: every write the plugin issues for a session id (POST /prompts,
\* POST /observations) is issued only after a POST /sessions for that id was
\* answered, under any interleaving of the handlers and also when an earlier
\* POST /sessions failed because the server was not running: no session is
\* known whose POST /sessions was not answered, unless the answer is still
\* awaited.
C31_WriteAfterSessionEnsured ==
    /\ \A i \in DOMAIN Sent :
          Sent[i].path \in {"/prompts", "/observations"} =>
              Sent[i].session_id \in ensured
    /\ \A i \in DOMAIN knownSessions :
          knownSessions[i] \in ensured
             \/ \E j \in DOMAIN inflight :
                   inflight[j].path = "/sessions" /\ inflight[j].id = knownSessions[i]

(***************************************************************************)
(* Properties of the reads under SpecReads.                                *)
(***************************************************************************)

\* C32: reads never fail on data the engine itself wrote: after any
\* sequence of successful CreateSession, EndSession, AddObservation and
\* AddPrompt calls (AddPrompt with an empty project and AddObservation with
\* empty tool name and project, stored as NULL, included), FormatContext (with
\* its RecentPrompts) and Export return success, and Export includes those
\* rows.
C32_ReadsSucceed ==
    /\ ret.op = "FormatContext" => ~ret.err
    /\ ret.op = "Export" =>
          /\ ~ret.err
          /\ Len(ret.data.observations) = Len(observations)
          /\ Len(ret.data.prompts) = Len(user_prompts)

\* C33: the tool-call count in the end-of-session summary of a session is
\* the number of tool.execute.after events of that session whose tool is not
\* one of Engram's own, since the session's previous session.idle or
\* session.deleted event; no event is counted twice or lost under interleaved
\* handlers; after session.idle or session.deleted the session's counter and
\* its known-session mark are both cleared.
C33_ToolCallCount ==
    [][/\ (ret'.op = "session.idle" /\ Len(inflight') = Len(inflight) + 1) =>
             ret'.sent[1].count = GetOrZero(calls, ret'.id)
       /\ (\/ ret'.op = "session.deleted"
           \/ ret'.op = "session.idle" /\ Len(inflight') < Len(inflight)) =>
             /\ ret'.id \notin DOMAIN toolCounts'
             /\ ret'.id \notin Range(knownSessions')]_vars

(***************************************************************************)
(* Properties of EndSession for an unknown id under SpecSession.           *)
(***************************************************************************)

\* C34: EndSession(id, summary) for an id with no session row returns no
\* error, creates no session and leaves every table unchanged.
C34_EndSessionUnknownId ==
    [][(ret'.op = "EndSession" /\ now' = now /\ ret'.id \notin DOMAIN sessions) =>
          /\ ~ret'.err
          /\ UNCHANGED <<sessions, observations, user_prompts, obs_seq,
                         prompt_seq, observations_fts, prompts_fts,
                         sync_chunks>>]_vars

\* EndSession has returned for an id that has no row, in a store that holds
\* another session and a row of it.
C34_Witness ==
    /\ ret.op = "EndSession"
    /\ ret.id \notin DOMAIN sessions
    /\ DOMAIN sessions # {}
    /\ observations # <<>>

=============================================================================
